---------------------------- MODULE Spec2Model ----------------------------
(***************************************************************************)
(* Order tracking application (Koluman Siparis Takip): the snapshot diff   *)
(* engine (compareDatasets), the risk classifier (recalculateStatus) and   *)
(* the React application state of App / EmailGenerator with its            *)
(* asynchronous handlers.                                                  *)
(*                                                                         *)
(* Three specifications share the module:                                  *)
(*   SpecDiff      compareDatasets applied to two bounded snapshots        *)
(*   SpecClassify  recalculateStatus applied to one line and a threshold   *)
(*   Spec          the application: App state, handlers, review modal      *)
(***************************************************************************)
EXTENDS Integers, Sequences, FiniteSets, TLC

VARIABLES
    \* ---- diff engine harness (SpecDiff) ----
    oldData,            \* first argument of compareDatasets
    newData,            \* second argument of compareDatasets
    report,             \* <<compareDatasets(oldData, newData)>>, <<>> before the call
    reverseReport,      \* <<compareDatasets(newData, oldData)>>, <<>> before the call
    \* ---- classifier harness (SpecClassify) ----
    clsItems,           \* items argument of recalculateStatus
    clsThreshold,       \* threshold argument of recalculateStatus
    clsResult,          \* returned list, <<>> before the call
    \* ---- App state (useState hooks of App) ----
    appState,           \* "UPLOAD" | "DASHBOARD" | "GENERATOR" | "COMPARISON"
    data,               \* the order collection
    selectedVendor,     \* <<VendorSummary>>, <<>> for null
    warningThreshold,
    isOffline,
    isDbLoading,        \* TRUE from the start of initData until its finally block
    apiKeyMissing,
    comparisonResult,   \* <<ComparisonReportData>>, <<>> for null
    \* ---- asynchronous calls in flight ----
    pendingUpload,      \* <<closure>> while FileUpload awaits parseExcelData
    syncPending,        \* handleDataLoaded awaits the remote store
    \* ---- EmailGenerator state (vendor detail view) ----
    orderChatLoading,   \* handleSendOrderMessage awaits processOrderUpdates
    pendingUpdates,     \* proposals shown in the review modal
    showReviewModal,
    selectedKeys,       \* UpdateReviewModal: keys of the ticked proposals
    emailContent,       \* the email draft, "" before one is generated
    emailChatHistory,   \* the roles of the messages of the email chat
    emailLoading,       \* generateDraft awaits generateEmailDraft
    filters,            \* the <<column, allowed values>> pairs of the columns with a filter
    askedItems,         \* row keys of the lines marked as asked
    \* ---- what the user has done so far in the session ----
    userSteps,          \* uploads, edits and chat messages so far
    \* ---- the date helpers applied to one value (SpecDates) ----
    host,               \* the host clock: its time zone and the current instant
    dateArg,            \* the value handed to the helpers
    dateResult,         \* <<results>>, <<>> before the call
    \* ---- the row mapper of parseExcelData applied to one row (SpecParse) ----
    sheet,              \* the columns found in the header row and one raw row
    mapped,             \* <<the result of the mapper and of the filter>>, <<>> before
    \* ---- Dashboard.vendorSummaries applied to one collection (SpecSummaries) ----
    orders,             \* the data prop of the Dashboard
    summaries,          \* <<vendorSummaries>>, <<>> before the memo is computed
    \* ---- generateEmailDraft applied to one item list (SpecDraft) ----
    draftItems,         \* the items argument, the caller's array
    handedOff,          \* <<the list serialised into the prompt>>, <<>> before the call
    \* ---- upsertSuppliersFromExcel applied to one row list (SpecUpsert) ----
    supplierDocs,       \* the documents of the suppliers collection
    supplierRows,       \* the rows argument
    upsertResult,       \* <<{ inserted, updated }>>, <<>> before the call returns
    \* ---- the header detection of parseExcelData on one grid (SpecHeader) ----
    jsonData,           \* the rows of the first sheet
    headerRowIndex      \* <<index>> once the header row is chosen, <<>> before

diffVars == <<oldData, newData, report, reverseReport>>
clsVars  == <<clsItems, clsThreshold, clsResult>>
appVars  == <<appState, data, selectedVendor, warningThreshold, isOffline, isDbLoading,
              apiKeyMissing, comparisonResult>>
asyncVars == <<pendingUpload, syncPending>>
viewVars == <<orderChatLoading, pendingUpdates, showReviewModal, selectedKeys>>
localVars == <<emailContent, emailChatHistory, emailLoading, filters, askedItems>>
userVars == <<userSteps>>
dateVars == <<host, dateArg, dateResult>>
parseVars == <<sheet, mapped>>
sumVars == <<orders, summaries>>
draftVars == <<draftItems, handedOff>>
upsertVars == <<supplierDocs, supplierRows, upsertResult>>
headerVars == <<jsonData, headerRowIndex>>
fnVars == <<sumVars, draftVars, upsertVars, headerVars>>
vars     == <<diffVars, clsVars, appVars, asyncVars, viewVars, localVars, userVars, dateVars,
              parseVars, fnVars>>

(***************************************************************************)
(* Bounds                                                                  *)
(***************************************************************************)
MaxLines == 2           \* longest snapshot handed to compareDatasets

(***************************************************************************)
(* Dates.  A display date "DD.MM.YYYY" is the tuple <<DD, MM, YYYY>>;      *)
(* NoDate is the absent value (undefined or the empty string, both falsy). *)
(***************************************************************************)
NoDate == <<>>
D10May == <<10, 5, 2025>>
D15May == <<15, 5, 2025>>
D22May == <<22, 5, 2025>>
D29May == <<29, 5, 2025>>

(***************************************************************************)
(* Order lines (SapOrderItem).                                             *)
(***************************************************************************)
Line(sa, kalem, mal, kod, adi, tes, rev, kalan, st) ==
    [saBelgesi |-> sa, sasKalemNo |-> kalem, malzeme |-> mal,
     saticiKodu |-> kod, saticiAdi |-> adi,
     teslimatTarihi |-> tes, revizeTarih |-> rev, aciklama |-> "",
     kalanGun |-> kalan, status |-> st]

\* x || y of JavaScript on strings: the empty string is falsy
OrElse(x, y) == IF x # "" THEN x ELSE y

\* d1 || d2 on optional date strings
DateOrElse(d1, d2) == IF d1 # NoDate THEN d1 ELSE d2

(***************************************************************************)
(* Days remaining.  Time is counted in hours of local time; the host clock *)
(* shows the day Today.                                                    *)
(***************************************************************************)
Today == <<12, 5, 2025>>
HoursPerDay == 24

\* days between 01.01.1970 and the civil date <<d, m, y>> (proleptic Gregorian);
\* like the Date constructor it accepts a day past the end of the month
DaysFromCivil(date) ==
    LET d   == date[1]
        m   == date[2]
        y   == IF m <= 2 THEN date[3] - 1 ELSE date[3]
        era == y \div 400
        yoe == y - era * 400
        mp  == (m + 9) % 12
        doy == (153 * mp + 2) \div 5 + d - 1
        doe == yoe * 365 + yoe \div 4 - yoe \div 100 + doy
    IN  era * 146097 + doe - 719468

\* new Date(y, m - 1, d).getTime(), and today.setHours(0,0,0,0): local midnight
LocalMidnight(date) == DaysFromCivil(date) * HoursPerDay

\* Math.round(x / HoursPerDay): nearest integer, halves towards +infinity
RoundDiv(x, n) == (2 * x + n) \div (2 * n)

\* parseDateToDaysRemaining on a "DD.MM.YYYY" string: <<n>> for the number n,
\* NoDays for null
NoDays == <<>>
parseDateToDaysRemaining(dateVal) ==
    IF dateVal = NoDate THEN NoDays
    ELSE <<RoundDiv(LocalMidnight(dateVal) - LocalMidnight(Today), HoursPerDay)>>

(***************************************************************************)
(* Risk classification                                                     *)
(***************************************************************************)
\* mutant: the threshold day itself is not a warning
StatusOfStrict(kalanGun, threshold) ==
    IF kalanGun < 0 THEN "critical"
    ELSE IF kalanGun < threshold THEN "warning"
    ELSE "ok"

\* the status computed inside recalculateStatus for one item
StatusOf(kalanGun, threshold) ==
    IF kalanGun < 0 THEN "critical"
    ELSE IF kalanGun <= threshold THEN "warning"
    ELSE "ok"

\* items.map(item => ({ ...item, status }))
recalculateStatus(items, threshold) ==
    [i \in DOMAIN items |-> [items[i] EXCEPT !.status = StatusOf(items[i].kalanGun, threshold)]]

\* the rule built into the row mapper of parseExcelData (threshold 10)
ParserThreshold == 10
ParserStatus(kalanGun) ==
    IF kalanGun < 0 THEN "critical"
    ELSE IF kalanGun <= ParserThreshold THEN "warning"
    ELSE "ok"

\* the order line the row mapper builds from the cells of one row whose
\* delivery date cell holds tes ("DD.MM.YYYY" or empty) and which has no
\* numeric days-remaining cell
ParsedLine(sa, kalem, mal, kod, adi, tes) ==
    LET calculated == parseDateToDaysRemaining(tes)
        kalan      == IF calculated # NoDays THEN calculated[1] ELSE 0
    IN  Line(sa, kalem, mal, kod, adi, tes, NoDate, kalan, ParserStatus(kalan))

(***************************************************************************)
(* compareDatasets                                                         *)
(***************************************************************************)
\* `${item.saBelgesi}_${item.sasKalemNo || item.malzeme}`
getItemKey(item) == <<item.saBelgesi, OrElse(item.sasKalemNo, item.malzeme)>>

\* new Map filled by data.forEach(item => map.set(getItemKey(item), item)):
\* a later line with the same key replaces the earlier one
BuildMap(lines) ==
    [k \in {getItemKey(lines[i]) : i \in DOMAIN lines} |->
        lines[CHOOSE i \in DOMAIN lines :
                /\ getItemKey(lines[i]) = k
                /\ \A j \in DOMAIN lines : getItemKey(lines[j]) = k => j <= i]]

\* mutant: the revised date is ignored
EffectiveDatePromisedOnly(item) == item.teslimatTarihi

\* item.revizeTarih || item.teslimatTarihi
EffectiveDate(item) == DateOrElse(item.revizeTarih, item.teslimatTarihi)

\* vendorDiffs: a JavaScript object; keys holds the property names in
\* insertion order, entry the values
EmptyVendorDiffs == [keys |-> <<>>, entry |-> <<>>]

NewVendorEntry(item) ==
    [vendorId |-> item.saticiKodu, vendorName |-> item.saticiAdi,
     addedCount |-> 0, removedCount |-> 0, updatedCount |-> 0, items |-> <<>>]

HasVendor(vd, vId) == \E i \in DOMAIN vd.keys : vd.keys[i] = vId

VendorPos(vd, vId) == CHOOSE i \in DOMAIN vd.keys : vd.keys[i] = vId

\* getVendorEntry: creates the bucket of item.saticiKodu when it is missing
getVendorEntry(vd, item) ==
    IF HasVendor(vd, item.saticiKodu) THEN vd
    ELSE [keys  |-> Append(vd.keys, item.saticiKodu),
          entry |-> Append(vd.entry, NewVendorEntry(item))]

DiffItem(type, item, oldDate, newDate) ==
    [type |-> type, item |-> item, oldDate |-> oldDate, newDate |-> newDate]

AddToVendor(vd, vId, counter, diffItem) ==
    LET p == VendorPos(vd, vId)
        v == vd.entry[p]
    IN  [vd EXCEPT !.entry[p] =
            [v EXCEPT ![counter] = @ + 1, !.items = Append(@, diffItem)]]

\* mutant: a line whose key the old snapshot lacks is counted as updated
NewStepAddedAsUpdated(vd, oldMap, newItem) ==
    LET key == getItemKey(newItem)
        vd1 == getVendorEntry(vd, newItem)
    IN  IF key \notin DOMAIN oldMap
        THEN AddToVendor(vd1, newItem.saticiKodu, "updatedCount",
                         DiffItem("added", newItem, NoDate, NoDate))
        ELSE LET oldDate == EffectiveDate(oldMap[key])
                 newDate == EffectiveDate(newItem)
             IN  IF oldDate # newDate
                 THEN AddToVendor(vd1, newItem.saticiKodu, "updatedCount",
                                  DiffItem("updated", newItem, oldDate, newDate))
                 ELSE vd1

\* body of newData.forEach (step 1: added and updated)
NewStep(vd, oldMap, newItem) ==
    LET key == getItemKey(newItem)
        vd1 == getVendorEntry(vd, newItem)
    IN  IF key \notin DOMAIN oldMap
        THEN AddToVendor(vd1, newItem.saticiKodu, "addedCount",
                         DiffItem("added", newItem, NoDate, NoDate))
        ELSE LET oldDate == EffectiveDate(oldMap[key])
                 newDate == EffectiveDate(newItem)
             IN  IF oldDate # newDate
                 THEN AddToVendor(vd1, newItem.saticiKodu, "updatedCount",
                                  DiffItem("updated", newItem, oldDate, newDate))
                 ELSE vd1

\* mutant: a line counts as still present when the new snapshot holds any
\* line of the same order number
OldStepByOrderNo(vd, newMap, oldItem) ==
    IF \A k \in DOMAIN newMap : k[1] # oldItem.saBelgesi
    THEN AddToVendor(getVendorEntry(vd, oldItem), oldItem.saticiKodu, "removedCount",
                     DiffItem("removed", oldItem, NoDate, NoDate))
    ELSE vd

\* mutant: the removed item is pushed without removedCount++
OldStepNoCount(vd, newMap, oldItem) ==
    IF getItemKey(oldItem) \notin DOMAIN newMap
    THEN LET vd1 == getVendorEntry(vd, oldItem)
             p   == VendorPos(vd1, oldItem.saticiKodu)
         IN  [vd1 EXCEPT !.entry[p].items =
                 Append(@, DiffItem("removed", oldItem, NoDate, NoDate))]
    ELSE vd

\* body of oldData.forEach (step 2: removed)
OldStep(vd, newMap, oldItem) ==
    IF getItemKey(oldItem) \notin DOMAIN newMap
    THEN AddToVendor(getVendorEntry(vd, oldItem), oldItem.saticiKodu, "removedCount",
                     DiffItem("removed", oldItem, NoDate, NoDate))
    ELSE vd

RECURSIVE NewPass(_, _, _, _)
NewPass(vd, oldMap, lines, i) ==
    IF i > Len(lines) THEN vd
    ELSE NewPass(NewStep(vd, oldMap, lines[i]), oldMap, lines, i + 1)

RECURSIVE OldPass(_, _, _, _)
OldPass(vd, newMap, lines, i) ==
    IF i > Len(lines) THEN vd
    ELSE OldPass(OldStep(vd, newMap, lines[i]), newMap, lines, i + 1)

\* Property order of a JavaScript object: integer-like names ascending, then
\* the other names in insertion order.  IntegerKey gives the numeric value
\* of the supplier codes of the model that are canonical integers.
IntegerKey == [c \in {"100234", "200567"} |-> IF c = "100234" THEN 100234 ELSE 200567]

IsIntegerKey(c) == c \in DOMAIN IntegerKey

RECURSIVE SelectSeqBy(_, _, _)
SelectSeqBy(s, keep, i) ==
    IF i > Len(s) THEN <<>>
    ELSE IF keep[i] THEN <<s[i]>> \o SelectSeqBy(s, keep, i + 1)
         ELSE SelectSeqBy(s, keep, i + 1)

\* Array.prototype.sort is stable: pairs <<weight, element>> are sorted by
\* ascending weight and elements of equal weight keep their order
RECURSIVE InsertByWeight(_, _)
InsertByWeight(sorted, p) ==
    IF sorted = <<>> THEN <<p>>
    ELSE IF p[1] < sorted[Len(sorted)][1]
         THEN InsertByWeight(SubSeq(sorted, 1, Len(sorted) - 1), p) \o <<sorted[Len(sorted)]>>
         ELSE sorted \o <<p>>

RECURSIVE SortPairs(_)
SortPairs(ps) ==
    IF ps = <<>> THEN <<>>
    ELSE InsertByWeight(SortPairs(SubSeq(ps, 1, Len(ps) - 1)), ps[Len(ps)])

StableSortBy(s, weight) ==
    LET sorted == SortPairs([i \in 1..Len(s) |-> <<weight[i], s[i]>>])
    IN  [i \in 1..Len(s) |-> sorted[i][2]]

\* Object.values(vendorDiffs)
ObjectValues(vd) ==
    LET n        == Len(vd.keys)
        intPart  == SelectSeqBy(vd.entry, [i \in 1..n |-> IsIntegerKey(vd.keys[i])], 1)
        strPart  == SelectSeqBy(vd.entry, [i \in 1..n |-> ~IsIntegerKey(vd.keys[i])], 1)
    IN  StableSortBy(intPart, [i \in 1..Len(intPart) |-> IntegerKey[intPart[i].vendorId]])
        \o strPart

\* mutant: the filter keeps every bucket
HasChangeAlways(v) == v.addedCount >= 0

HasChange(v) == v.addedCount > 0 \/ v.removedCount > 0 \/ v.updatedCount > 0

\* mutant: the comparator is written the other way round (a - b)
SortWeightAscending(v) == v.addedCount + v.updatedCount

\* comparator (b.addedCount + b.updatedCount) - (a.addedCount + a.updatedCount):
\* descending by added + updated, i.e. ascending by its negation
SortWeight(v) == 0 - (v.addedCount + v.updatedCount)

\* mutant: the reducer adds 1 per vendor instead of the vendor's count
SumFieldCount(s, f) == Len(s)

RECURSIVE SumField(_, _)
SumField(s, f) == IF s = <<>> THEN 0 ELSE Head(s)[f] + SumField(Tail(s), f)

compareDatasets(old, new) ==
    LET oldMap  == BuildMap(old)
        newMap  == BuildMap(new)
        vd1     == NewPass(EmptyVendorDiffs, oldMap, new, 1)
        vd2     == OldPass(vd1, newMap, old, 1)
        all     == ObjectValues(vd2)
        kept    == SelectSeqBy(all, [i \in 1..Len(all) |-> HasChange(all[i])], 1)
        vendors == StableSortBy(kept, [i \in 1..Len(kept) |-> SortWeight(kept[i])])
    IN  [totalAdded   |-> SumField(vendors, "addedCount"),
         totalRemoved |-> SumField(vendors, "removedCount"),
         totalUpdated |-> SumField(vendors, "updatedCount"),
         vendors      |-> vendors]


(***************************************************************************)
(* SpecDiff: compareDatasets on two snapshots of at most MaxLines lines    *)
(***************************************************************************)
VendorX == "100234"
VendorY == "200567"
VendorZ == "V3"

\* Six lines: two orders under one key with different effective dates, the
\* same key under another supplier, a key built from the material number,
\* a line without any date.
DiffLines ==
    { ParsedLine("450001", "10", "M1", VendorX, "X A.S.", D10May),
      [ParsedLine("450001", "10", "M1", VendorX, "X A.S.", D10May) EXCEPT !.revizeTarih = D15May],
      ParsedLine("450001", "10", "M1", VendorY, "Y Ltd.", D15May),
      ParsedLine("450002", "10", "M1", VendorY, "Y Ltd.", D10May),
      ParsedLine("450002", "", "M2", VendorY, "Y Ltd.", D22May),
      ParsedLine("450003", "", "M2", VendorZ, "Z GmbH", NoDate) }

RECURSIVE SeqsUpTo(_, _)
SeqsUpTo(S, n) ==
    IF n = 0 THEN {<<>>}
    ELSE LET shorter == SeqsUpTo(S, n - 1)
         IN  shorter \cup {Append(q, x) : q \in shorter, x \in S}

Snapshots == SeqsUpTo(DiffLines, MaxLines)

\* the detail view with no work in it: the values of the useState calls
NoFilters == {}
LocalIdle ==
    /\ emailContent = "" /\ emailChatHistory = <<>> /\ emailLoading = FALSE
    /\ filters = NoFilters /\ askedItems = {}

\* the application part of the state, unused by the two harnesses
AppIdle ==
    /\ appState = "UPLOAD" /\ data = <<>> /\ selectedVendor = <<>>
    /\ warningThreshold = 7 /\ isOffline = FALSE /\ isDbLoading = FALSE
    /\ apiKeyMissing = FALSE /\ comparisonResult = <<>>
    /\ pendingUpload = <<>> /\ syncPending = FALSE
    /\ orderChatLoading = FALSE /\ pendingUpdates = <<>>
    /\ showReviewModal = FALSE /\ selectedKeys = {}
    /\ LocalIdle
    /\ userSteps = 0

\* the two helper harnesses at rest
NoDateState == host = <<>> /\ dateArg = <<>> /\ dateResult = <<>>
NoParseState == sheet = <<>> /\ mapped = <<>>
NoSumState == orders = <<>> /\ summaries = <<>>
NoDraftState == draftItems = <<>> /\ handedOff = <<>>
NoUpsertState == supplierDocs = {} /\ supplierRows = <<>> /\ upsertResult = <<>>
NoHeaderState == jsonData = <<>> /\ headerRowIndex = <<>>
NoFnState == NoSumState /\ NoDraftState /\ NoUpsertState /\ NoHeaderState

NoClsState == /\ clsItems = <<>>
              /\ clsThreshold = 0
              /\ clsResult = <<>>

InitDiff ==
    /\ oldData \in Snapshots
    /\ newData \in Snapshots
    /\ report = <<>>
    /\ reverseReport = <<>>
    /\ NoClsState
    /\ AppIdle
    /\ NoDateState /\ NoParseState /\ NoFnState

\* handleCompareLoaded's call compareDatasets(oldData, newData)
Compare ==
    /\ report = <<>>
    /\ report' = <<compareDatasets(oldData, newData)>>
    /\ UNCHANGED <<oldData, newData, reverseReport, clsVars, appVars, asyncVars, viewVars, localVars, userVars, dateVars, parseVars, fnVars>>

\* the same two files given in the opposite roles
CompareReverse ==
    /\ reverseReport = <<>>
    /\ reverseReport' = <<compareDatasets(newData, oldData)>>
    /\ UNCHANGED <<oldData, newData, report, clsVars, appVars, asyncVars, viewVars, localVars, userVars, dateVars, parseVars, fnVars>>

NextDiff == Compare \/ CompareReverse

SpecDiff == InitDiff /\ [][NextDiff]_vars

(***************************************************************************)
(* SpecClassify: recalculateStatus on one line                             *)
(***************************************************************************)
MaxDays == 12           \* days remaining range over -MaxDays .. MaxDays
MaxThreshold == 10      \* thresholds range over 0 .. MaxThreshold

NoDiffState == /\ oldData = <<>>
               /\ newData = <<>>
               /\ report = <<>>
               /\ reverseReport = <<>>

InitClassify ==
    /\ \E d \in (0 - MaxDays)..MaxDays, st \in {"critical", "warning", "ok"} :
          clsItems = <<Line("450001", "10", "M1", VendorX, "X A.S.", D10May, NoDate, d, st)>>
    /\ clsThreshold \in 0..MaxThreshold
    /\ clsResult = <<>>
    /\ NoDiffState
    /\ AppIdle
    /\ NoDateState /\ NoParseState /\ NoFnState

Classify ==
    /\ clsResult = <<>>
    /\ clsResult' = recalculateStatus(clsItems, clsThreshold)
    /\ UNCHANGED <<clsItems, clsThreshold, diffVars, appVars, asyncVars, viewVars, localVars, userVars, dateVars, parseVars, fnVars>>

NextClassify == Classify

SpecClassify == InitClassify /\ [][NextClassify]_vars


(***************************************************************************)
(* Spec: the application                                                   *)
(***************************************************************************)
InitialThreshold == 7

\* process.env.API_KEY of the build: not set, the key comes from the settings
EnvKey == FALSE
MaxUpdates == 2         \* most proposals in one answer of the update extraction
MaxUserSteps == 3       \* uploads, edits and chat messages of one session

\* thresholds the settings dialog is used with
Thresholds == {7, 15}

\* dates typed into the date input of a row
EditDates == {D22May}

\* contents of the uploaded workbooks after row mapping
FileA == << ParsedLine("450001", "10", "M1", VendorX, "X A.S.", D10May),
            ParsedLine("450001", "20", "M2", VendorX, "X A.S.", D22May),
            ParsedLine("450002", "10", "M1", VendorY, "Y Ltd.", D15May) >>
FileB == << ParsedLine("450001", "10", "M1", VendorX, "X A.S.", D15May),
            ParsedLine("450003", "", "M2", VendorX, "X A.S.", D22May) >>
AppFiles == {FileA, FileB}

\* the (old, new) workbooks given to the comparison
ComparePairs == {<<FileA, FileB>>}

\* what getOrdersFromFirebase may return: the orders saved by an earlier session
DbSnapshots == {<<>>, FileA}

\* (orderNumber, itemNumber, newDate) tuples the update extraction may return
AiTuple(sa, kalem, d) == [saBelgesi |-> sa, sasKalemNo |-> kalem, newDate |-> d]
AiTuples == { AiTuple("450001", "10", D15May),
              AiTuple("450001", "20", D29May),
              AiTuple("450001", "", D15May) }
\* the answers: up to MaxUpdates different tuples in any order
AiResponses ==
    {s \in SeqsUpTo(AiTuples, MaxUpdates) : \A i, j \in DOMAIN s : i # j => s[i] # s[j]}

\* ---- Dashboard.vendorSummaries: grouping by supplier name ----
EmptyGroups == [keys |-> <<>>, entry |-> <<>>]

\* mutant: the groups are keyed by the supplier code
GroupStepByCode(groups, item) ==
    LET g1 == IF \E i \in DOMAIN groups.keys : groups.keys[i] = item.saticiKodu
              THEN groups
              ELSE [keys  |-> Append(groups.keys, item.saticiKodu),
                    entry |-> Append(groups.entry,
                                [vendorId |-> item.saticiKodu, vendorName |-> item.saticiAdi,
                                 itemCount |-> 0, criticalCount |-> 0, warningCount |-> 0,
                                 items |-> <<>>])]
        p  == CHOOSE i \in DOMAIN g1.keys : g1.keys[i] = item.saticiKodu
    IN  [g1 EXCEPT !.entry[p] =
            [@ EXCEPT !.items = Append(@, item),
                      !.itemCount = @ + 1,
                      !.criticalCount = IF item.status = "critical" THEN @ + 1 ELSE @,
                      !.warningCount = IF item.status = "warning" THEN @ + 1 ELSE @]]

\* data.forEach(item => { const key = item.saticiAdi; ... })
GroupStep(groups, item) ==
    LET g1 == IF \E i \in DOMAIN groups.keys : groups.keys[i] = item.saticiAdi
              THEN groups
              ELSE [keys  |-> Append(groups.keys, item.saticiAdi),
                    entry |-> Append(groups.entry,
                                [vendorId |-> item.saticiKodu, vendorName |-> item.saticiAdi,
                                 itemCount |-> 0, criticalCount |-> 0, warningCount |-> 0,
                                 items |-> <<>>])]
        p  == CHOOSE i \in DOMAIN g1.keys : g1.keys[i] = item.saticiAdi
    IN  [g1 EXCEPT !.entry[p] =
            [@ EXCEPT !.items = Append(@, item),
                      !.itemCount = @ + 1,
                      !.criticalCount = IF item.status = "critical" THEN @ + 1 ELSE @,
                      !.warningCount = IF item.status = "warning" THEN @ + 1 ELSE @]]

RECURSIVE GroupPass(_, _, _)
GroupPass(groups, lines, i) ==
    IF i > Len(lines) THEN groups
    ELSE GroupPass(GroupStep(groups, lines[i]), lines, i + 1)

vendorSummaries(lines) == GroupPass(EmptyGroups, lines, 1).entry

\* ---- handleUpdateItem / handleUpdateNote ----
\* item.saBelgesi === saBelgesi && (item.sasKalemNo === sasKalemNo || !sasKalemNo)
ItemMatches(item, sa, kalem) ==
    item.saBelgesi = sa /\ (item.sasKalemNo = kalem \/ kalem = "")

\* items.map(item => match ? { ...item, revizeTarih: newDate } : item)
UpdateItemIn(items, sa, kalem, newDate) ==
    [i \in DOMAIN items |->
        IF ItemMatches(items[i], sa, kalem)
        THEN [items[i] EXCEPT !.revizeTarih = newDate] ELSE items[i]]

\* items.map(item => match ? { ...item, aciklama: note } : item)
UpdateNoteIn(items, sa, kalem, note) ==
    [i \in DOMAIN items |->
        IF ItemMatches(items[i], sa, kalem)
        THEN [items[i] EXCEPT !.aciklama = note] ELSE items[i]]

\* ---- handleSettingsSave ----
CountStatus(items, st) == Cardinality({i \in DOMAIN items : items[i].status = st})

\* mutant: the recomputation uses the threshold of the current render
SettingsSaveDataStale(lines, newThreshold) ==
    IF Len(lines) > 0 THEN recalculateStatus(lines, warningThreshold) ELSE lines

\* if (data.length > 0) setData(recalculateStatus(data, newThreshold))
SettingsSaveData(lines, newThreshold) ==
    IF Len(lines) > 0 THEN recalculateStatus(lines, newThreshold) ELSE lines

SettingsSaveVendor(lines, sv, newThreshold) ==
    IF Len(lines) > 0 /\ sv # <<>>
    THEN LET updatedVendorItems == recalculateStatus(sv[1].items, newThreshold)
         IN  <<[sv[1] EXCEPT !.items = updatedVendorItems,
                             !.criticalCount = CountStatus(updatedVendorItems, "critical"),
                             !.warningCount = CountStatus(updatedVendorItems, "warning")]>>
    ELSE sv

\* ---- review of the proposed updates ----
\* the line of vendor.items a proposal is hydrated from: the first match
HydrateMatch(item, u) ==
    /\ item.saBelgesi = u.saBelgesi
    /\ (item.sasKalemNo = u.sasKalemNo \/ (u.sasKalemNo = "" /\ item.malzeme = u.sasKalemNo))

Hydrate(u, items) ==
    LET found == {i \in DOMAIN items : HydrateMatch(items[i], u)}
        first == CHOOSE i \in found : \A j \in found : i <= j
    IN  [saBelgesi |-> u.saBelgesi, sasKalemNo |-> u.sasKalemNo, newDate |-> u.newDate,
         material |-> IF found = {} THEN "?" ELSE OrElse(items[first].malzeme, "?")]

\* `${u.saBelgesi}_${u.sasKalemNo || u.material}_${u.newDate}`
getUpdateKey(u) == <<u.saBelgesi, OrElse(u.sasKalemNo, u.material), u.newDate>>

UpdateKeys(updates) == {getUpdateKey(updates[i]) : i \in DOMAIN updates}

\* mutant: every proposal is confirmed, ticked or not
ConfirmedUpdatesAll(updates, keys) == updates

\* handleConfirm: updates.filter(u => selectedKeys.has(getUpdateKey(u)))
ConfirmedUpdates(updates, keys) ==
    SelectSeqBy(updates, [i \in DOMAIN updates |-> getUpdateKey(updates[i]) \in keys], 1)

\* finalizeUpdates calls onUpdateItem once per proposal inside one event.
\* Every call evaluates setData(data.map(...)) on the data of the same render,
\* so the value of the last call is the one that is committed.
finalizeUpdatesData(closureData, selected) ==
    IF selected = <<>> THEN closureData
    ELSE LET u == selected[Len(selected)]
         IN  UpdateItemIn(closureData, u.saBelgesi, u.sasKalemNo, u.newDate)

\* the calls setSelectedVendor(prev => ...) are queued and applied in order
RECURSIVE finalizeUpdatesItems(_, _, _)
finalizeUpdatesItems(items, selected, i) ==
    IF i > Len(selected) THEN items
    ELSE finalizeUpdatesItems(
            UpdateItemIn(items, selected[i].saBelgesi, selected[i].sasKalemNo,
                         selected[i].newDate),
            selected, i + 1)

\* ---- what is on screen ----
\* the loading screen replaces everything but the key screen
LoadingScreen == isDbLoading /\ appState = "UPLOAD"
UiReady == ~apiKeyMissing /\ ~LoadingScreen
SettingsReachable == apiKeyMissing \/ ~LoadingScreen

\* EmailGenerator is rendered
ViewMounted(st, sv, missing) == st = "GENERATOR" /\ sv # <<>> /\ ~missing

ViewReset ==
    /\ orderChatLoading' = FALSE
    /\ pendingUpdates' = <<>>
    /\ showReviewModal' = FALSE
    /\ selectedKeys' = {}
    /\ emailContent' = ""
    /\ emailChatHistory' = <<>>
    /\ emailLoading' = FALSE
    /\ filters' = NoFilters
    /\ askedItems' = {}

\* useEffect(() => { setEmailContent(''); setEmailChatHistory([]); setFilters({});
\* setAskedItems(new Set()); ... }, [vendor, initialTab]): the effect of the
\* mounted view runs after every render that receives another vendor object
VendorEffect ==
    /\ emailContent' = ""
    /\ emailChatHistory' = <<>>
    /\ filters' = NoFilters
    /\ askedItems' = {}
    /\ UNCHANGED emailLoading

\* the view keeps its state while it stays mounted and starts afresh otherwise;
\* newVendor: the handler hands the view another vendor object
ViewFollows(st, sv, missing, newVendor) ==
    IF ViewMounted(appState, selectedVendor, apiKeyMissing) /\ ViewMounted(st, sv, missing)
    THEN /\ UNCHANGED viewVars
         /\ IF newVendor THEN VendorEffect ELSE UNCHANGED localVars
    ELSE ViewReset

Init ==
    /\ appState = "UPLOAD"
    /\ data = <<>>
    /\ selectedVendor = <<>>
    /\ warningThreshold = InitialThreshold
    /\ isOffline = FALSE
    /\ isDbLoading = TRUE
    /\ apiKeyMissing \in (IF EnvKey THEN {FALSE} ELSE BOOLEAN)
    /\ comparisonResult = <<>>
    /\ pendingUpload = <<>> /\ syncPending = FALSE
    /\ orderChatLoading = FALSE /\ pendingUpdates = <<>>
    /\ showReviewModal = FALSE /\ selectedKeys = {}
    /\ LocalIdle
    /\ userSteps = 0
    /\ NoDiffState
    /\ NoClsState
    /\ NoDateState /\ NoParseState /\ NoFnState

\* initData, after Promise.all resolved with dbOrders.  The effect has no
\* dependencies: it runs recalculateStatus with the threshold of the first render.
InitDataResolve ==
    /\ isDbLoading
    /\ \E dbOrders \in DbSnapshots :
          IF Len(dbOrders) > 0
          THEN /\ data' = recalculateStatus(dbOrders, InitialThreshold)
               /\ appState' = "DASHBOARD"
               /\ ViewFollows("DASHBOARD", selectedVendor, apiKeyMissing, FALSE)
          ELSE UNCHANGED <<data, appState, viewVars, localVars>>
    /\ isOffline' = FALSE
    /\ isDbLoading' = FALSE
    /\ UNCHANGED <<selectedVendor, warningThreshold, apiKeyMissing,
                   comparisonResult, asyncVars, diffVars, clsVars, userVars, dateVars, parseVars, fnVars>>

\* initData, catch branch
InitDataFail ==
    /\ isDbLoading
    /\ isOffline' = TRUE
    /\ isDbLoading' = FALSE
    /\ UNCHANGED <<appState, data, selectedVendor, warningThreshold, apiKeyMissing,
                   comparisonResult, asyncVars, viewVars, localVars, diffVars, clsVars, userVars, dateVars, parseVars, fnVars>>

\* FileUpload.processFile up to its await: the handler onDataLoaded it will
\* call is the handleDataLoaded of the current render.  One upload at a time.
StartParse ==
    /\ userSteps < MaxUserSteps
    /\ userSteps' = userSteps + 1
    /\ UiReady /\ appState = "UPLOAD"
    /\ pendingUpload = <<>>
    /\ pendingUpload' = <<[mode |-> "single", threshold |-> warningThreshold,
                           offline |-> isOffline]>>
    /\ UNCHANGED <<appVars, syncPending, viewVars, localVars, diffVars, clsVars, dateVars, parseVars, fnVars>>

\* processFile after the await with items.length > 0: handleDataLoaded up to
\* its first await
FinishParse ==
    /\ pendingUpload # <<>> /\ pendingUpload[1].mode = "single"
    /\ \E loadedData \in AppFiles :
          data' = recalculateStatus(loadedData, pendingUpload[1].threshold)
    /\ appState' = "DASHBOARD"
    /\ syncPending' = (syncPending \/ ~pendingUpload[1].offline)
    /\ pendingUpload' = <<>>
    /\ ViewFollows("DASHBOARD", selectedVendor, apiKeyMissing, FALSE)
    /\ UNCHANGED <<selectedVendor, warningThreshold, isOffline, isDbLoading, apiKeyMissing,
                   comparisonResult, diffVars, clsVars, userVars, dateVars, parseVars, fnVars>>

\* processFile: no rows, or parseExcelData rejected
ParseFails ==
    /\ pendingUpload # <<>> /\ pendingUpload[1].mode = "single"
    /\ pendingUpload' = <<>>
    /\ UNCHANGED <<appVars, syncPending, viewVars, localVars, diffVars, clsVars, userVars, dateVars, parseVars, fnVars>>

\* handleDataLoaded: the remote store calls succeeded
SyncDone ==
    /\ syncPending
    /\ syncPending' = FALSE
    /\ UNCHANGED <<appVars, pendingUpload, viewVars, localVars, diffVars, clsVars, userVars, dateVars, parseVars, fnVars>>

\* handleDataLoaded: catch branch
SyncFail ==
    /\ syncPending
    /\ syncPending' = FALSE
    /\ isOffline' = TRUE
    /\ UNCHANGED <<appState, data, selectedVendor, warningThreshold, isDbLoading,
                   apiKeyMissing, comparisonResult, pendingUpload,
                   viewVars, localVars, diffVars, clsVars, userVars, dateVars, parseVars, fnVars>>

\* FileUpload.handleCompare up to its first await
StartCompare ==
    /\ userSteps < MaxUserSteps
    /\ userSteps' = userSteps + 1
    /\ UiReady /\ appState = "UPLOAD"
    /\ pendingUpload = <<>>
    /\ pendingUpload' = <<[mode |-> "compare", threshold |-> warningThreshold,
                           offline |-> isOffline]>>
    /\ UNCHANGED <<appVars, syncPending, viewVars, localVars, diffVars, clsVars, dateVars, parseVars, fnVars>>

\* handleCompare after both parses: handleCompareLoaded(oldData, newData)
FinishCompare ==
    /\ pendingUpload # <<>> /\ pendingUpload[1].mode = "compare"
    /\ \E pair \in ComparePairs :
          LET processedNewData == recalculateStatus(pair[2], pendingUpload[1].threshold)
          IN  /\ comparisonResult' = <<compareDatasets(pair[1], processedNewData)>>
              /\ data' = processedNewData
    /\ appState' = "COMPARISON"
    /\ pendingUpload' = <<>>
    /\ ViewFollows("COMPARISON", selectedVendor, apiKeyMissing, FALSE)
    /\ UNCHANGED <<selectedVendor, warningThreshold, isOffline, isDbLoading, apiKeyMissing,
                   syncPending, diffVars, clsVars, userVars, dateVars, parseVars, fnVars>>

\* handleCompare: catch branch
CompareFails ==
    /\ pendingUpload # <<>> /\ pendingUpload[1].mode = "compare"
    /\ pendingUpload' = <<>>
    /\ UNCHANGED <<appVars, syncPending, viewVars, localVars, diffVars, clsVars, userVars, dateVars, parseVars, fnVars>>

\* SettingsModal.handleSave -> handleSettingsSave(newThreshold, newApiKey).
\* The key field is pre-filled with the stored key; the user leaves it as it
\* is, or types one on the key screen.
SettingsSave ==
    /\ SettingsReachable /\ ~showReviewModal
    /\ \E newThreshold \in Thresholds, keyGiven \in (IF apiKeyMissing THEN BOOLEAN ELSE {TRUE}) :
          /\ warningThreshold' = newThreshold
          /\ apiKeyMissing' = (IF keyGiven THEN FALSE ELSE ~EnvKey)
          /\ data' = SettingsSaveData(data, newThreshold)
          /\ selectedVendor' = SettingsSaveVendor(data, selectedVendor, newThreshold)
          /\ ViewFollows(appState, selectedVendor', apiKeyMissing',
                         Len(data) > 0 /\ selectedVendor # <<>>)
    /\ UNCHANGED <<appState, isOffline, isDbLoading, comparisonResult,
                   asyncVars, diffVars, clsVars, userVars, dateVars, parseVars, fnVars>>

\* Dashboard: a vendor card is clicked
SelectVendor ==
    /\ UiReady /\ appState = "DASHBOARD"
    /\ \E v \in {vendorSummaries(data)[i] : i \in DOMAIN vendorSummaries(data)} :
          selectedVendor' = <<v>>
    /\ appState' = "GENERATOR"
    /\ ViewReset
    /\ UNCHANGED <<data, warningThreshold, isOffline, isDbLoading, apiKeyMissing,
                   comparisonResult, asyncVars, diffVars, clsVars, userVars, dateVars, parseVars, fnVars>>

BackToDashboard ==
    /\ UiReady /\ appState = "GENERATOR" /\ selectedVendor # <<>> /\ ~showReviewModal
    /\ selectedVendor' = <<>>
    /\ appState' = "DASHBOARD"
    /\ ViewReset
    /\ UNCHANGED <<data, warningThreshold, isOffline, isDbLoading, apiKeyMissing,
                   comparisonResult, asyncVars, diffVars, clsVars, userVars, dateVars, parseVars, fnVars>>

BackToUpload ==
    /\ UiReady
    /\ \/ appState = "DASHBOARD"
       \/ appState = "COMPARISON" /\ comparisonResult # <<>>
    /\ appState' = "UPLOAD"
    /\ UNCHANGED <<data, selectedVendor, warningThreshold, isOffline, isDbLoading,
                   apiKeyMissing, comparisonResult, asyncVars, viewVars, localVars,
                   diffVars, clsVars, userVars, dateVars, parseVars, fnVars>>

\* the date input of a row of the order table: handleUpdateItem
UpdateItem ==
    /\ userSteps < MaxUserSteps
    /\ userSteps' = userSteps + 1
    /\ ViewMounted(appState, selectedVendor, apiKeyMissing) /\ ~showReviewModal
    /\ \E i \in DOMAIN selectedVendor[1].items, newDate \in EditDates :
          LET item == selectedVendor[1].items[i]
              kalem == OrElse(item.sasKalemNo, "")
          IN  /\ data' = UpdateItemIn(data, item.saBelgesi, kalem, newDate)
              /\ selectedVendor' = <<[selectedVendor[1] EXCEPT !.items =
                                        UpdateItemIn(@, item.saBelgesi, kalem, newDate)]>>
    /\ VendorEffect
    /\ UNCHANGED <<appState, warningThreshold, isOffline, isDbLoading, apiKeyMissing,
                   comparisonResult, asyncVars, viewVars, diffVars, clsVars, dateVars,
                   parseVars, fnVars>>

\* the note field of a row: handleUpdateNote
UpdateNote ==
    /\ userSteps < MaxUserSteps
    /\ userSteps' = userSteps + 1
    /\ ViewMounted(appState, selectedVendor, apiKeyMissing) /\ ~showReviewModal
    /\ \E i \in DOMAIN selectedVendor[1].items :
          LET item == selectedVendor[1].items[i]
              kalem == OrElse(item.sasKalemNo, "")
          IN  /\ data' = UpdateNoteIn(data, item.saBelgesi, kalem, "not")
              /\ selectedVendor' = <<[selectedVendor[1] EXCEPT !.items =
                                        UpdateNoteIn(@, item.saBelgesi, kalem, "not")]>>
    /\ VendorEffect
    /\ UNCHANGED <<appState, warningThreshold, isOffline, isDbLoading, apiKeyMissing,
                   comparisonResult, asyncVars, viewVars, diffVars, clsVars, dateVars,
                   parseVars, fnVars>>

\* handleSendOrderMessage up to the await of processOrderUpdates
StartOrderMessage ==
    /\ userSteps < MaxUserSteps
    /\ userSteps' = userSteps + 1
    /\ ViewMounted(appState, selectedVendor, apiKeyMissing) /\ ~showReviewModal
    /\ ~orderChatLoading
    /\ orderChatLoading' = TRUE
    /\ UNCHANGED <<pendingUpdates, showReviewModal, selectedKeys, localVars, appVars,
                   asyncVars, diffVars, clsVars, dateVars, parseVars, fnVars>>

\* handleSendOrderMessage after the await; an empty list is also what a failed
\* call returns.  The modal mounts with every proposal ticked.
FinishOrderMessage ==
    /\ orderChatLoading
    /\ orderChatLoading' = FALSE
    /\ \E updates \in AiResponses :
          IF Len(updates) > 0
          THEN LET hydrated == [i \in DOMAIN updates |->
                                  Hydrate(updates[i], selectedVendor[1].items)]
               IN  /\ pendingUpdates' = hydrated
                   /\ showReviewModal' = TRUE
                   /\ selectedKeys' = UpdateKeys(hydrated)
          ELSE UNCHANGED <<pendingUpdates, showReviewModal, selectedKeys>>
    /\ UNCHANGED <<localVars, appVars, asyncVars, diffVars, clsVars, userVars, dateVars,
                   parseVars, fnVars>>

\* UpdateReviewModal.toggle
ToggleUpdate ==
    /\ showReviewModal
    /\ \E key \in UpdateKeys(pendingUpdates) :
          selectedKeys' = IF key \in selectedKeys THEN selectedKeys \ {key}
                          ELSE selectedKeys \cup {key}
    /\ UNCHANGED <<orderChatLoading, pendingUpdates, showReviewModal, localVars, appVars,
                   asyncVars, diffVars, clsVars, userVars, dateVars, parseVars, fnVars>>

\* UpdateReviewModal.toggleAllVisible (no column filter set)
ToggleAllVisible ==
    /\ showReviewModal
    /\ selectedKeys' = IF UpdateKeys(pendingUpdates) \subseteq selectedKeys
                       THEN selectedKeys \ UpdateKeys(pendingUpdates)
                       ELSE selectedKeys \cup UpdateKeys(pendingUpdates)
    /\ UNCHANGED <<orderChatLoading, pendingUpdates, showReviewModal, localVars, appVars,
                   asyncVars, diffVars, clsVars, userVars, dateVars, parseVars, fnVars>>

\* onCancel={() => setShowReviewModal(false)}
CancelReview ==
    /\ showReviewModal
    /\ showReviewModal' = FALSE
    /\ selectedKeys' = {}
    /\ UNCHANGED <<orderChatLoading, pendingUpdates, localVars, appVars, asyncVars,
                   diffVars, clsVars, userVars, dateVars, parseVars, fnVars>>

\* UpdateReviewModal.handleConfirm -> finalizeUpdates(toUpdate)
ConfirmReview ==
    /\ showReviewModal /\ selectedKeys # {}
    /\ LET toUpdate == ConfirmedUpdates(pendingUpdates, selectedKeys)
       IN  /\ data' = finalizeUpdatesData(data, toUpdate)
           /\ selectedVendor' = <<[selectedVendor[1] EXCEPT !.items =
                                     finalizeUpdatesItems(@, toUpdate, 1)]>>
    /\ showReviewModal' = FALSE
    /\ pendingUpdates' = <<>>
    /\ selectedKeys' = {}
    /\ VendorEffect
    /\ UNCHANGED <<orderChatLoading, appState, warningThreshold, isOffline, isDbLoading,
                   apiKeyMissing, comparisonResult, asyncVars, diffVars, clsVars, userVars, dateVars, parseVars, fnVars>>

Next ==
    \/ InitDataResolve \/ InitDataFail
    \/ StartParse \/ FinishParse \/ ParseFails \/ SyncDone \/ SyncFail
    \/ StartCompare \/ FinishCompare \/ CompareFails
    \/ SettingsSave \/ SelectVendor \/ BackToDashboard \/ BackToUpload
    \/ UpdateItem \/ UpdateNote
    \/ StartOrderMessage \/ FinishOrderMessage
    \/ ToggleUpdate \/ ToggleAllVisible \/ CancelReview \/ ConfirmReview

Spec == Init /\ [][Next]_vars

(***************************************************************************)
(* The host clock.  Instants are hours since 01.01.1970 00:00 UTC.  A zone *)
(* is [base, shift, shiftDay]: local time is UTC + base hours up to the    *)
(* clock change, which happens at 02:00 local time on day shiftDay (days   *)
(* since 01.01.1970), and UTC + base + shift hours after it; shift = 0 is  *)
(* a zone without clock changes.                                           *)
(***************************************************************************)
Zone(base, shift, shiftDay) == [base |-> base, shift |-> shift, shiftDay |-> shiftDay]

\* the instant of the clock change
ShiftInstant(zone) == zone.shiftDay * HoursPerDay + 2 - zone.base

\* hours to add to an instant to get what the local clock shows
OffsetAt(zone, t) ==
    IF zone.shift # 0 /\ t >= ShiftInstant(zone) THEN zone.base + zone.shift ELSE zone.base

\* the local calendar day (days since 01.01.1970) of an instant
LocalDay(zone, t) == (t + OffsetAt(zone, t)) \div HoursPerDay

\* the instant at which local day n begins: new Date(y, m, d) and
\* setHours(0, 0, 0, 0)
LocalMidnightIn(zone, n) ==
    n * HoursPerDay - (IF zone.shift # 0 /\ n > zone.shiftDay
                       THEN zone.base + zone.shift ELSE zone.base)

\* the civil date <<d, m, y>> of a day number (inverse of DaysFromCivil)
CivilFromDays(n) ==
    LET z   == n + 719468
        era == z \div 146097
        doe == z - era * 146097
        yoe == (doe - doe \div 1460 + doe \div 36524 - doe \div 146096) \div 365
        doy == doe - (365 * yoe + yoe \div 4 - yoe \div 100)
        mp  == (5 * doy + 2) \div 153
        d   == doy - (153 * mp + 2) \div 5 + 1
        m   == IF mp < 10 THEN mp + 3 ELSE mp - 9
        y   == yoe + era * 400
    IN  <<d, m, IF m <= 2 THEN y + 1 ELSE y>>

\* serial number of 01.01.1970 in a spreadsheet
ExcelEpoch == 25569

\* excelDateToJSDate on a whole serial: new Date((serial - 25569) * 86400 * 1000)
excelDateToJSDate(serial) == (serial - ExcelEpoch) * HoursPerDay

\* date.toLocaleDateString('tr-TR'): DD.MM.YYYY of the local calendar day
toLocaleDateString(zone, t) == CivilFromDays(LocalDay(zone, t))

\* date.setHours(0, 0, 0, 0)
setHoursZero(zone, t) == LocalMidnightIn(zone, LocalDay(zone, t))

\* Math.ceil(x / n)
CeilDiv(x, n) == 0 - ((0 - x) \div n)

\* parseDateToDaysRemaining under a host clock h = [zone, now], on a date
\* serial (kind "serial") or on a DD.MM.YYYY text (kind "text")
daysRemainingParser(h, arg) ==
    LET target == IF arg.kind = "serial"
                  THEN setHoursZero(h.zone, excelDateToJSDate(arg.serial))
                  ELSE setHoursZero(h.zone, LocalMidnightIn(h.zone, DaysFromCivil(arg.date)))
        today  == setHoursZero(h.zone, h.now)
    IN  RoundDiv(target - today, HoursPerDay)

\* parseDateToDaysRemaining of the other version of the parser: the target
\* is not moved to midnight and the quotient is rounded up
daysRemainingOtherParser(h, arg) ==
    LET target == IF arg.kind = "serial"
                  THEN excelDateToJSDate(arg.serial)
                  ELSE LocalMidnightIn(h.zone, DaysFromCivil(arg.date))
        today  == setHoursZero(h.zone, h.now)
    IN  CeilDiv(target - today, HoursPerDay)

\* calculateDaysRemaining of the vendor detail view, on a DD.MM.YYYY text
calculateDaysRemaining(h, date) ==
    LET targetDate == LocalMidnightIn(h.zone, DaysFromCivil(date))
        today      == setHoursZero(h.zone, h.now)
    IN  CeilDiv(targetDate - today, HoursPerDay)

\* formatDisplayDate on a date serial
formatSerial(h, serial) == toLocaleDateString(h.zone, excelDateToJSDate(serial))

(***************************************************************************)
(* SpecDates: the date helpers on one date under one host clock            *)
(***************************************************************************)
MaxAhead == 3           \* most days between today and the date

\* UTC offsets of the hosts, in hours
ZoneBases == {0 - 5, 0, 3}

\* the hour the local clock shows when the helpers run
ClockHours == {0, 9, 23}

\* the hosts: today is Today; a clock change, if the zone has one, happens one
\* day after today
Hosts ==
    LET n0 == DaysFromCivil(Today)
    IN  {[zone |-> Zone(b, sh, n0 + 1),
          now  |-> LocalMidnightIn(Zone(b, sh, n0 + 1), n0) + hr] :
            b \in ZoneBases, sh \in {0 - 1, 0, 1}, hr \in ClockHours}

\* the dates: from MaxAhead days before today to MaxAhead days after it, as the
\* serial of a date cell or as the text of a DD.MM.YYYY cell
DateArgs ==
    LET n0 == DaysFromCivil(Today)
    IN  {[kind |-> k, serial |-> n + ExcelEpoch, date |-> CivilFromDays(n)] :
            k \in {"serial", "text"}, n \in (n0 - MaxAhead)..(n0 + MaxAhead)}

InitDates ==
    /\ \E h \in Hosts : host = <<h>>
    /\ \E a \in DateArgs : dateArg = <<a>>
    /\ dateResult = <<>>
    /\ NoDiffState /\ NoClsState /\ AppIdle /\ NoParseState /\ NoFnState

\* the helpers are applied to the value
ComputeDates ==
    /\ dateResult = <<>>
    /\ dateResult' =
          <<[parser  |-> daysRemainingParser(host[1], dateArg[1]),
             view    |-> calculateDaysRemaining(host[1], dateArg[1].date),
             display |-> IF dateArg[1].kind = "serial"
                         THEN formatSerial(host[1], dateArg[1].serial)
                         ELSE dateArg[1].date]>>
    /\ UNCHANGED <<host, dateArg, diffVars, clsVars, appVars, asyncVars, viewVars, localVars,
                   userVars, parseVars, fnVars>>

NextDates == ComputeDates

SpecDates == InitDates /\ [][NextDates]_vars

(***************************************************************************)
(* Raw cells of a worksheet row.  A cell is missing (undefined), null, a   *)
(* number, a text, or a text of the form DD.MM.YYYY, which is held as the  *)
(* date tuple it spells.                                                   *)
(***************************************************************************)
Undef == [t |-> "undef", n |-> 0, s |-> "", d |-> NoDate]
Null == [t |-> "null", n |-> 0, s |-> "", d |-> NoDate]
Num(n) == [t |-> "num", n |-> n, s |-> "", d |-> NoDate]
Str(s) == [t |-> "str", n |-> 0, s |-> s, d |-> NoDate]
DateText(d) == [t |-> "dmy", n |-> 0, s |-> "", d |-> d]

\* truthiness of a JavaScript value
Truthy(c) ==
    \/ c.t = "num" /\ c.n # 0
    \/ c.t = "str" /\ c.s # ""
    \/ c.t = "dmy"

\* what the built-ins return on the texts and numbers of the model:
\* String(n), parseInt(s) (<<>> for NaN), and whether Number(s) is a number
NumberText == [n \in {450001, 100234, 5, 0 - 3} |->
                 CASE n = 450001 -> "450001" [] n = 100234 -> "100234"
                   [] n = 5 -> "5" [] OTHER -> "-3"]

ParseIntText == [s \in {"", "  ", "undefined", "450001", "100234", "5", "10", "yok",
                        "X A.S.", "V3", "ACME Ltd", "M1", "ADT", "PC"} |->
                   CASE s = "450001" -> <<450001>> [] s = "100234" -> <<100234>>
                     [] s = "5" -> <<5>> [] s = "10" -> <<10>> [] OTHER -> <<>>]

NumericText(s) == s \in {"", "  ", "450001", "100234", "5", "10"}

\* String(v) for a truthy cell v
String(c) == IF c.t = "num" THEN NumberText[c.n] ELSE c.s

\* String(v || fallback)
StringOr(c, fallback) == IF Truthy(c) THEN String(c) ELSE fallback

\* Number(v || 0) on the cells of a quantity column (numbers or missing)
NumberOr(c) == IF Truthy(c) THEN c.n ELSE 0

\* parseInt(v): <<n>>, <<>> for NaN
parseInt(c) ==
    IF c.t = "num" THEN <<c.n>>
    ELSE IF c.t = "str" THEN ParseIntText[c.s]
    ELSE <<>>

(***************************************************************************)
(* The row mapper of parseExcelData                                        *)
(***************************************************************************)
TextFields == {"saBelgesi", "sasKalemNo", "saticiKodu", "saticiAdi", "malzeme", "kisaMetin",
               "olcuBirimi", "talepEden", "olusturan", "aciklama"}
DateFields == {"teslimatTarihi", "ilkTarih"}
NumberFields == {"kalanGun", "sasMiktari", "bakiyeMiktari"}
\* the columns findHeaderIndex looks for
Columns == TextFields \cup DateFields \cup NumberFields

\* the host the workbook is parsed on: Istanbul (UTC+3, no clock changes),
\* at 09:00 of Today
ParseHost ==
    [zone |-> Zone(3, 0, 0),
     now  |-> LocalMidnightIn(Zone(3, 0, 0), DaysFromCivil(Today)) + 9]

\* getVal(idx.f): idx.f is -1 when f is not among the columns found
getVal(cols, row, f) ==
    IF f \in cols /\ row[f].t # "undef" THEN row[f] ELSE Null

\* parseDateToDaysRemaining(dateVal) on a cell: <<n>>, NoDays for null.  No
\* text of the model other than a DD.MM.YYYY text is a date the Date
\* constructor accepts.
parseCellToDaysRemaining(parser, c) ==
    LET days(arg) == IF parser = "SettingsModal"
                     THEN daysRemainingParser(ParseHost, arg)
                     ELSE daysRemainingOtherParser(ParseHost, arg)
    IN  IF ~Truthy(c) THEN NoDays
        ELSE IF c.t = "num"
             THEN <<days([kind |-> "serial", serial |-> c.n, date |-> NoDate])>>
        ELSE IF c.t = "dmy"
             THEN <<days([kind |-> "text", serial |-> 0, date |-> c.d])>>
        ELSE NoDays

\* rawKalan !== null && rawKalan !== '' && !isNaN(parseInt(rawKalan))
HasIntegerDays(rawKalan) ==
    /\ rawKalan.t # "null"
    /\ ~(rawKalan.t = "str" /\ rawKalan.s = "")
    /\ parseInt(rawKalan) # <<>>

\* let kalanGun = 0; ... in the other version of the parser: the numeric
\* column first, the date only without it
rowKalanGunOther(rawKalan, rawTeslimat) ==
    IF HasIntegerDays(rawKalan) THEN parseInt(rawKalan)[1]
    ELSE IF Truthy(rawTeslimat) /\ parseCellToDaysRemaining("part_005", rawTeslimat) # NoDays
         THEN parseCellToDaysRemaining("part_005", rawTeslimat)[1]
    ELSE 0

\* let kalanGun = 0; ... Priority: Calculated from Date > Excel Value
rowKalanGun(rawKalan, rawTeslimat) ==
    IF Truthy(rawTeslimat)
    THEN LET calculated == parseCellToDaysRemaining("SettingsModal", rawTeslimat)
         IN  IF calculated # NoDays THEN calculated[1]
             ELSE IF HasIntegerDays(rawKalan) THEN parseInt(rawKalan)[1]
             ELSE 0
    ELSE IF HasIntegerDays(rawKalan) THEN parseInt(rawKalan)[1]
    ELSE 0

\* formatDisplayDate(dateVal): defined = FALSE for undefined; a date is held
\* as its tuple, any other text as it is
formatDisplayDate(c) ==
    IF ~Truthy(c) THEN [defined |-> FALSE, date |-> NoDate, text |-> ""]
    ELSE IF c.t = "num"
         THEN [defined |-> TRUE, date |-> formatSerial(ParseHost, c.n), text |-> ""]
    ELSE IF c.t = "dmy" THEN [defined |-> TRUE, date |-> c.d, text |-> ""]
    ELSE [defined |-> TRUE, date |-> NoDate, text |-> c.s]

UnknownSupplier == "Bilinmeyen Tedarikçi"

\* mutant: a long code is taken as the name without the test that it is not
\* a number
resolveSupplierNameByLength(saticiAdi, saticiKodu) ==
    IF saticiAdi # "" THEN saticiAdi
    ELSE IF saticiKodu # "" /\ Len(saticiKodu) > 5 THEN saticiKodu
    ELSE IF saticiKodu # "" THEN "Tedarikçi (" \o saticiKodu \o ")"
    ELSE UnknownSupplier

\* vendor identification: if (!saticiAdi) { ... }
resolveSupplierName(saticiAdi, saticiKodu) ==
    IF saticiAdi # "" THEN saticiAdi
    ELSE IF saticiKodu # "" /\ Len(saticiKodu) > 5 /\ ~NumericText(saticiKodu) THEN saticiKodu
    ELSE IF saticiKodu # "" THEN "Tedarikçi (" \o saticiKodu \o ")"
    ELSE UnknownSupplier

\* the two versions of parseExcelData the repository holds
Parsers == {"SettingsModal", "part_005"}

\* the callback of rows.map
mapRow(parser, cols, row) ==
    LET rawKalan    == getVal(cols, row, "kalanGun")
        rawTeslimat == getVal(cols, row, "teslimatTarihi")
        rawIlkTarih == getVal(cols, row, "ilkTarih")
        kalanGun    == IF parser = "SettingsModal"
                       THEN rowKalanGun(rawKalan, rawTeslimat)
                       ELSE rowKalanGunOther(rawKalan, rawTeslimat)
        saticiKodu  == StringOr(getVal(cols, row, "saticiKodu"), "")
    IN  [saBelgesi       |-> StringOr(getVal(cols, row, "saBelgesi"), ""),
         sasKalemNo      |-> StringOr(getVal(cols, row, "sasKalemNo"), ""),
         kalanGun        |-> kalanGun,
         saticiKodu      |-> saticiKodu,
         saticiAdi       |-> resolveSupplierName(
                                StringOr(getVal(cols, row, "saticiAdi"), ""), saticiKodu),
         malzeme         |-> StringOr(getVal(cols, row, "malzeme"), ""),
         kisaMetin       |-> StringOr(getVal(cols, row, "kisaMetin"), ""),
         sasMiktari      |-> NumberOr(getVal(cols, row, "sasMiktari")),
         malGirisMiktari |-> 0,
         bakiyeMiktari   |-> NumberOr(getVal(cols, row, "bakiyeMiktari")),
         olcuBirimi      |-> StringOr(getVal(cols, row, "olcuBirimi"), "ADT"),
         teslimatTarihi  |-> formatDisplayDate(rawTeslimat),
         ilkTarih        |-> formatDisplayDate(rawIlkTarih),
         status          |-> ParserStatus(kalanGun),
         talepEden       |-> StringOr(getVal(cols, row, "talepEden"), ""),
         olusturan       |-> StringOr(getVal(cols, row, "olusturan"), ""),
         aciklama        |-> StringOr(getVal(cols, row, "aciklama"), "")]

\* the callback of .filter
rowFilter(item) ==
    /\ item.saBelgesi # "" /\ item.saBelgesi # "undefined"
    /\ item.saticiAdi # UnknownSupplier

(***************************************************************************)
(* SpecParse: the row mapper and the row filter on one raw row             *)
(***************************************************************************)
\* a sheet: the version of the parser it is given to, the columns found in
\* the header row and one row below it.  Either every column is found and
\* the row varies in the cells the mapper branches on, or one column is not
\* found and the row has a value in every column.
Sheets ==
    LET Serial15May == DaysFromCivil(D15May) + ExcelEpoch
        SampleRow ==
            [f \in Columns |->
                CASE f = "saBelgesi" -> Str("450001")
                  [] f = "sasKalemNo" -> Str("10")
                  [] f = "saticiKodu" -> Num(100234)
                  [] f = "saticiAdi" -> Str("X A.S.")
                  [] f = "malzeme" -> Str("M1")
                  [] f = "olcuBirimi" -> Str("PC")
                  [] f = "teslimatTarihi" -> DateText(D15May)
                  [] f = "ilkTarih" -> DateText(D10May)
                  [] f = "kalanGun" -> Num(5)
                  [] f \in NumberFields -> Num(100)
                  [] OTHER -> Str("yok")]
        OrderCells == {Undef, Null, Str(""), Str("  "), Str("undefined"), Str("450001"),
                       Num(450001)}
        DaysCells == {Undef, Str(""), Str("5"), Str("yok"), Num(0 - 3)}
        DateCells == {Undef, Str(""), Str("yok"), DateText(D15May), Num(Serial15May)}
        NameCells == {Undef, Str(""), Num(0), Str("X A.S.")}
        CodeCells == {Undef, Str(""), Str("V3"), Str("100234"), Num(100234), Str("ACME Ltd")}
    IN  {[parser |-> p, cols |-> Columns,
          row  |-> [SampleRow EXCEPT !["saBelgesi"] = o, !["kalanGun"] = k,
                                     !["teslimatTarihi"] = t, !["saticiAdi"] = a,
                                     !["saticiKodu"] = c]] :
            p \in Parsers, o \in OrderCells, k \in DaysCells, t \in DateCells,
            a \in NameCells, c \in CodeCells}
        \cup
        {[parser |-> p, cols |-> Columns \ {f}, row |-> SampleRow] :
            p \in Parsers, f \in Columns}

InitParse ==
    /\ \E sh \in Sheets : sheet = <<sh>>
    /\ mapped = <<>>
    /\ NoDiffState /\ NoClsState /\ AppIdle /\ NoDateState /\ NoFnState

\* rows.map(...).filter(...) on the row
MapRow ==
    /\ mapped = <<>>
    /\ LET item == mapRow(sheet[1].parser, sheet[1].cols, sheet[1].row)
       IN  mapped' = <<[item |-> item, kept |-> rowFilter(item)]>>
    /\ UNCHANGED <<sheet, diffVars, clsVars, appVars, asyncVars, viewVars, localVars, userVars, dateVars,
                   fnVars>>

NextParse == MapRow

SpecParse == InitParse /\ [][NextParse]_vars

(***************************************************************************)
(* SpecSummaries: Dashboard.vendorSummaries on one order collection        *)
(***************************************************************************)
MaxOrders == 3          \* longest collection handed to the Dashboard

\* Lines as the parser and the classifier leave them: a supplier whose name
\* cell is filled in one row and empty in another (the name is then the label
\* made of the code), two supplier codes under one name, and a third supplier.
SummaryLines ==
    { Line("450001", "10", "M1", VendorX, "X A.S.", D10May, NoDate, 0 - 2, "critical"),
      Line("450001", "20", "M2", VendorX, "X A.S.", D15May, NoDate, 3, "warning"),
      Line("450002", "10", "M1", VendorX, "Tedarikçi (100234)", D29May, NoDate, 17, "ok"),
      Line("450003", "10", "M1", VendorZ, "X A.S.", D10May, NoDate, 0 - 2, "critical"),
      Line("450004", "10", "M2", VendorY, "Y Ltd.", D15May, NoDate, 3, "warning") }

InitSummaries ==
    /\ orders \in SeqsUpTo(SummaryLines, MaxOrders)
    /\ summaries = <<>>
    /\ NoDiffState /\ NoClsState /\ AppIdle /\ NoDateState /\ NoParseState /\ NoDraftState
    /\ NoUpsertState /\ NoHeaderState

\* the memo of the Dashboard is computed from its data prop
ComputeSummaries ==
    /\ summaries = <<>>
    /\ summaries' = <<vendorSummaries(orders)>>
    /\ UNCHANGED <<orders, diffVars, clsVars, appVars, asyncVars, viewVars, localVars, userVars,
                   dateVars, parseVars, draftVars, upsertVars, headerVars>>

NextSummaries == ComputeSummaries

SpecSummaries == InitSummaries /\ [][NextSummaries]_vars

(***************************************************************************)
(* SpecDraft: generateEmailDraft on one item list                          *)
(***************************************************************************)
\* mutant: the comparator is written the other way round (b - a)
DraftWeightDescending(item) == 0 - item.kalanGun

\* comparator (a, b) => a.kalanGun - b.kalanGun
DraftWeight(item) == item.kalanGun

\* [...items].sort(...): the copy is sorted, the argument is not touched.
\* The result is the argument after the call and the sorted copy.
sortForDraft(items) ==
    [items       |-> items,
     sortedItems |-> StableSortBy(items, [i \in 1..Len(items) |-> DraftWeight(items[i])])]

\* sortedItems.map(item => ({ PO, ItemNo, ..., Date, DaysRemaining }))
dataContext(sortedItems) ==
    [i \in 1..Len(sortedItems) |->
        [PO            |-> sortedItems[i].saBelgesi,
         ItemNo        |-> OrElse(sortedItems[i].sasKalemNo, ""),
         Date          |-> DateOrElse(sortedItems[i].revizeTarih, sortedItems[i].teslimatTarihi),
         DaysRemaining |-> sortedItems[i].kalanGun]]

InitDraft ==
    /\ draftItems \in SeqsUpTo(SummaryLines, MaxOrders)
    /\ handedOff = <<>>
    /\ NoDiffState /\ NoClsState /\ AppIdle /\ NoDateState /\ NoParseState /\ NoSumState
    /\ NoUpsertState /\ NoHeaderState

\* generateEmailDraft(vendor.vendorName, vendor.items) up to the request
GenerateDraft ==
    /\ handedOff = <<>>
    /\ LET r == sortForDraft(draftItems)
       IN  /\ draftItems' = r.items
           /\ handedOff' = <<dataContext(r.sortedItems)>>
    /\ UNCHANGED <<diffVars, clsVars, appVars, asyncVars, viewVars, localVars, userVars,
                   dateVars, parseVars, sumVars, upsertVars, headerVars>>

NextDraft == GenerateDraft

SpecDraft == InitDraft /\ [][NextDraft]_vars

(***************************************************************************)
(* SpecUpsert: upsertSuppliersFromExcel on one row list.  A document of    *)
(* the suppliers collection is [id, sellerCode]; ids are positive numbers. *)
(***************************************************************************)
MaxRows == 3            \* longest row list handed to upsertSuppliersFromExcel

\* String(v || "").trim() on the seller codes of the model
trim(code) == IF code = "V3 " THEN "V3" ELSE code

\* getSupplierIndexBySellerCode: seller code -> document id; of two documents
\* with one code the one read last (the larger id) stays in the map
getSupplierIndexBySellerCode(docs) ==
    LET withCode == {d \in docs : d.sellerCode # ""}
    IN  [c \in {trim(d.sellerCode) : d \in withCode} |->
            CHOOSE id \in {d.id : d \in withCode} :
               /\ \E d \in withCode : d.id = id /\ trim(d.sellerCode) = c
               /\ \A d \in withCode : trim(d.sellerCode) = c => d.id <= id]

\* doc(collection(db, "suppliers")): a document reference with a new id
NewDocId(docs) == IF docs = {} THEN 1 ELSE 1 + (CHOOSE m \in {d.id : d \in docs} :
                                                    \A d \in docs : d.id <= m)

\* one pass of the loop over the rows of a chunk: batch.set on the existing
\* document or on a new one; index is the map read before the loop
UpsertRow(acc, index, r) ==
    LET sellerCode == trim(r)
    IN  IF sellerCode = "" THEN acc
        ELSE IF sellerCode \in DOMAIN index
        THEN [acc EXCEPT !.docs = {IF d.id = index[sellerCode]
                                   THEN [d EXCEPT !.sellerCode = sellerCode] ELSE d : d \in @},
                         !.updated = @ + 1]
        ELSE [acc EXCEPT !.docs = @ \cup {[id |-> NewDocId(@), sellerCode |-> sellerCode]},
                         !.inserted = @ + 1]

RECURSIVE UpsertRows(_, _, _, _)
UpsertRows(acc, index, rows, i) ==
    IF i > Len(rows) THEN acc
    ELSE UpsertRows(UpsertRow(acc, index, rows[i]), index, rows, i + 1)

\* the collection and the counters after the batch is committed
upsertSuppliersFromExcel(docs, rows) ==
    IF Len(rows) = 0 THEN [docs |-> docs, inserted |-> 0, updated |-> 0]
    ELSE UpsertRows([docs |-> docs, inserted |-> 0, updated |-> 0],
                    getSupplierIndexBySellerCode(docs), rows, 1)

\* seller codes of the rows of the supplier sheet
RowCodes == {"100234", "200567", "V3", "V3 ", ""}

\* the collection before the call: at most one document per seller code
StoredSuppliers ==
    { {}, {[id |-> 1, sellerCode |-> "100234"]},
      {[id |-> 1, sellerCode |-> "100234"], [id |-> 2, sellerCode |-> "200567"]} }

InitUpsert ==
    /\ supplierDocs \in StoredSuppliers
    /\ supplierRows \in SeqsUpTo(RowCodes, MaxRows)
    /\ upsertResult = <<>>
    /\ NoDiffState /\ NoClsState /\ AppIdle /\ NoDateState /\ NoParseState
    /\ NoSumState /\ NoDraftState /\ NoHeaderState

\* the call runs to its return
Upsert ==
    /\ upsertResult = <<>>
    /\ LET r == upsertSuppliersFromExcel(supplierDocs, supplierRows)
       IN  /\ supplierDocs' = r.docs
           /\ upsertResult' = <<[inserted |-> r.inserted, updated |-> r.updated]>>
    /\ UNCHANGED <<supplierRows, diffVars, clsVars, appVars, asyncVars, viewVars, localVars, userVars,
                   dateVars, parseVars, sumVars, draftVars, headerVars>>

NextUpsert == Upsert

SpecUpsert == InitUpsert /\ [][NextUpsert]_vars

(***************************************************************************)
(* SpecHeader: the header detection of parseExcelData.  A grid is a        *)
(* sequence of rows, a row a sequence of raw cells.  Texts are written in  *)
(* ASCII; the anchor names are held in the form normalize gives them.      *)
(***************************************************************************)
MaxHeaderScan == 20
MinMatchCount == 2
MaxTail == 2            \* most rows of a grid below its title rows

\* normalize(k) of the keyColumns 'SA Belgesi', 'Satici Adi', 'Malzeme',
\* 'Kisa Metin', 'Teslimat Tarihi'
keyColumns == {"sabelgesi", "saticiadi", "malzeme", "kisametin", "teslimattarihi"}

\* normalize(JSON.stringify(cell).toLowerCase()) on the cells of the model:
\* a blank cell is serialised as null
normalizeCell(c) ==
    IF c.t \in {"undef", "null"} THEN "null"
    ELSE IF c.t = "num" THEN "5"
    ELSE CASE c.s = "SA Belgesi" -> "sabelgesi"
           [] c.s = "MALZEME" -> "malzeme"
           [] c.s = "Mal" -> "mal"
           [] c.s = "zeme" -> "zeme"
           [] c.s = "Kisa Metin No." -> "kisametinno"
           [] OTHER -> "rapor2025"

\* normalize(rowStr): brackets, quotes and commas are dropped, what is left
\* is the normalised cells one after the other
RECURSIVE normalizeRow(_)
normalizeRow(row) ==
    IF row = <<>> THEN "" ELSE normalizeCell(Head(row)) \o normalizeRow(Tail(row))

\* String.prototype.includes
includes(text, part) ==
    \E i \in 1..(Len(text) - Len(part) + 1) : SubSeq(text, i, i + Len(part) - 1) = part

\* keyColumns.filter(k => normalize(rowStr).includes(normalize(k))).length
matchCount(row) == Cardinality({k \in keyColumns : includes(normalizeRow(row), k)})

\* mutant: every row of the grid is scanned
scanLimitAll(n) == n

\* Math.min(jsonData.length, 20)
scanLimit(n) == IF n < MaxHeaderScan THEN n ELSE MaxHeaderScan

\* the loop from index i on: headerRowIndex, -1 if no row qualifies
RECURSIVE scanHeader(_, _)
scanHeader(grid, i) ==
    IF i >= scanLimit(Len(grid)) THEN 0 - 1
    ELSE IF matchCount(grid[i + 1]) >= MinMatchCount THEN i
    ELSE scanHeader(grid, i + 1)

\* if (headerRowIndex === -1) headerRowIndex = 0
findHeaderRow(grid) ==
    IF scanHeader(grid, 0) = 0 - 1 THEN 0 ELSE scanHeader(grid, 0)

\* rows: a title, a row with one anchor, headers with two anchors, an anchor
\* split over two cells, alone and next to another anchor, an empty row
HeaderRows ==
    { <<Str("Rapor 2025")>>,
      <<Str("SA Belgesi"), Null>>,
      <<Str("SA Belgesi"), Str("MALZEME")>>,
      <<Str("Mal"), Str("zeme")>>,
      <<Str("SA Belgesi"), Str("Mal"), Str("zeme")>>,
      <<Str("Kisa Metin No."), Undef, Str("MALZEME"), Num(5)>>,
      <<>> }

\* grids: title rows, then up to MaxTail rows
Grids ==
    {[i \in 1..n |-> <<Str("Rapor 2025")>>] \o tail :
        n \in {0, 1, MaxHeaderScan - 2, MaxHeaderScan - 1, MaxHeaderScan},
        tail \in SeqsUpTo(HeaderRows, MaxTail)} \ {<<>>}

InitHeader ==
    /\ jsonData \in Grids
    /\ headerRowIndex = <<>>
    /\ NoDiffState /\ NoClsState /\ AppIdle /\ NoDateState /\ NoParseState
    /\ NoSumState /\ NoDraftState /\ NoUpsertState

\* if (jsonData && jsonData.length > 0) { ... the header row is chosen
FindHeader ==
    /\ headerRowIndex = <<>>
    /\ Len(jsonData) > 0
    /\ headerRowIndex' = <<findHeaderRow(jsonData)>>
    /\ UNCHANGED <<jsonData, diffVars, clsVars, appVars, asyncVars, viewVars, localVars, userVars,
                   dateVars, parseVars, sumVars, draftVars, upsertVars>>

NextHeader == FindHeader

SpecHeader == InitHeader /\ [][NextHeader]_vars

(***************************************************************************)
(* The order table of the vendor detail view (EmailGenerator)              *)
(***************************************************************************)
\* the days up to which a row is shown as a warning: effectiveRemainingDays <= 7
RowWarningDays == 7

\* newRemainingDays !== null ? newRemainingDays : item.kalanGun, where
\* newRemainingDays is calculateDaysRemaining(item.revizeTarih) under the clock
\* of the application (the day Today)
effectiveRemainingDays(item) ==
    IF item.revizeTarih # NoDate
    THEN CeilDiv(LocalMidnight(item.revizeTarih) - LocalMidnight(Today), HoursPerDay)
    ELSE item.kalanGun

\* effectiveIsDelayed / effectiveIsWarning: the colour class of the row
rowColour(item) ==
    IF effectiveRemainingDays(item) < 0 THEN "delayed"
    ELSE IF effectiveRemainingDays(item) <= RowWarningDays THEN "warning"
    ELSE "ok"

(***************************************************************************)
(* SpecEdit: the vendor detail view open on one supplier, the user working *)
(* in it and editing lines                                                 *)
(***************************************************************************)
\* `${item.saBelgesi}-${item.sasKalemNo || item.malzeme}`
getRowKey(item) == <<item.saBelgesi, OrElse(item.sasKalemNo, item.malzeme)>>

\* setAskedItems(prev => ...): the key is removed if present, added otherwise
toggleAsked(prev, key) == IF key \in prev THEN prev \ {key} ELSE prev \cup {key}

\* setFilters(prev => ...) of applyFilter(key, values) with a list of values
applyFilter(prev, key, values) == {f \in prev : f[1] # key} \cup {<<key, values>>}

\* setFilters(prev => ...) of applyFilter(key, undefined)
clearFilter(prev, key) == {f \in prev : f[1] # key}

\* a workbook with an order whose lines partly lack the item number
FileC == << ParsedLine("450003", "10", "M1", VendorX, "X A.S.", D15May),
            ParsedLine("450003", "", "M2", VendorX, "X A.S.", D22May),
            ParsedLine("450004", "10", "M1", VendorX, "X A.S.", D29May) >>
EditFiles == {FileB, FileC}

\* the column filters the user sets
FilterColumns == {"status"}
FilterValues == {{"critical"}, {"warning", "ok"}}

\* the workbook was loaded and a vendor card was clicked
InitEdit ==
    /\ appState = "GENERATOR"
    /\ \E lines \in EditFiles :
          LET loaded == recalculateStatus(lines, InitialThreshold)
          IN  /\ data = loaded
              /\ \E i \in DOMAIN vendorSummaries(loaded) :
                    selectedVendor = <<vendorSummaries(loaded)[i]>>
    /\ warningThreshold = InitialThreshold
    /\ isOffline = FALSE /\ isDbLoading = FALSE /\ apiKeyMissing = FALSE
    /\ comparisonResult = <<>>
    /\ pendingUpload = <<>> /\ syncPending = FALSE
    /\ orderChatLoading = FALSE /\ pendingUpdates = <<>>
    /\ showReviewModal = FALSE /\ selectedKeys = {}
    /\ LocalIdle
    /\ userSteps = 0
    /\ NoDiffState /\ NoClsState /\ NoDateState /\ NoParseState /\ NoFnState

\* generateDraft up to its await; the button is shown while there is no draft
StartDraft ==
    /\ ViewMounted(appState, selectedVendor, apiKeyMissing) /\ ~showReviewModal
    /\ ~emailLoading /\ emailContent = ""
    /\ emailLoading' = TRUE
    /\ emailChatHistory' = <<>>
    /\ UNCHANGED <<emailContent, filters, askedItems, appVars, asyncVars, viewVars,
                   diffVars, clsVars, userVars, dateVars, parseVars, fnVars>>

\* generateDraft after the await
FinishDraft ==
    /\ ViewMounted(appState, selectedVendor, apiKeyMissing)
    /\ emailLoading
    /\ emailContent' = "draft"
    /\ emailChatHistory' = <<"model">>
    /\ emailLoading' = FALSE
    /\ UNCHANGED <<filters, askedItems, appVars, asyncVars, viewVars,
                   diffVars, clsVars, userVars, dateVars, parseVars, fnVars>>

\* generateDraft: catch branch
DraftFails ==
    /\ ViewMounted(appState, selectedVendor, apiKeyMissing)
    /\ emailLoading
    /\ emailLoading' = FALSE
    /\ UNCHANGED <<emailContent, emailChatHistory, filters, askedItems, appVars, asyncVars,
                   viewVars, diffVars, clsVars, userVars, dateVars, parseVars, fnVars>>

\* the checkbox of a row: toggleAsked(rowKey)
ToggleAsked ==
    /\ ViewMounted(appState, selectedVendor, apiKeyMissing) /\ ~showReviewModal
    /\ \E i \in DOMAIN selectedVendor[1].items :
          askedItems' = toggleAsked(askedItems, getRowKey(selectedVendor[1].items[i]))
    /\ UNCHANGED <<emailContent, emailChatHistory, emailLoading, filters, appVars, asyncVars,
                   viewVars, diffVars, clsVars, userVars, dateVars, parseVars, fnVars>>

\* the filter menu of a column: onApply={(vals) => applyFilter(field, vals)}
ApplyFilter ==
    /\ ViewMounted(appState, selectedVendor, apiKeyMissing) /\ ~showReviewModal
    /\ \E key \in FilterColumns :
          \/ \E values \in FilterValues : filters' = applyFilter(filters, key, values)
          \/ filters' = clearFilter(filters, key)
    /\ UNCHANGED <<emailContent, emailChatHistory, emailLoading, askedItems, appVars,
                   asyncVars, viewVars, diffVars, clsVars, userVars, dateVars, parseVars,
                   fnVars>>

NextEdit ==
    \/ UpdateItem \/ UpdateNote
    \/ StartDraft \/ FinishDraft \/ DraftFails
    \/ ToggleAsked \/ ApplyFilter

SpecEdit == InitEdit /\ [][NextEdit]_vars

(***************************************************************************)
(* Properties of the diff engine (SpecDiff)                                *)
(***************************************************************************)
RECURSIVE Flatten(_)
Flatten(vendors) ==
    IF vendors = <<>> THEN <<>> ELSE Head(vendors).items \o Flatten(Tail(vendors))

\* all diff items of a report, and how often a given one occurs in a list
ReportItems(r) == Flatten(r.vendors)
Occurrences(seq, x) == Cardinality({i \in DOMAIN seq : seq[i] = x})

\* the identity key as the data model defines it, written out
KeyOf(l) == <<l.saBelgesi, IF l.sasKalemNo # "" THEN l.sasKalemNo ELSE l.malzeme>>
KeysIn(lines) == {KeyOf(lines[i]) : i \in DOMAIN lines}
KeysOfType(r, type) ==
    {KeyOf(ReportItems(r)[i].item) : i \in {j \in DOMAIN ReportItems(r) : ReportItems(r)[j].type = type}}

\* effective date: the revised date if set, else the promised date
EffDate(l) == IF l.revizeTarih # NoDate THEN l.revizeTarih ELSE l.teslimatTarihi

\* the line the key -> line map of a snapshot holds for key k (the last one)
MapLine(lines, k) ==
    lines[CHOOSE i \in DOMAIN lines :
            KeyOf(lines[i]) = k /\ \A j \in DOMAIN lines : KeyOf(lines[j]) = k => j <= i]

\* C1: diffing a collection against itself reports nothing: zero added, zero
\* removed, zero updated and no vendor, also when lines share a key.
C1_DiffIdempotent ==
    (report # <<>> /\ oldData = newData) =>
        /\ report[1].totalAdded = 0
        /\ report[1].totalRemoved = 0
        /\ report[1].totalUpdated = 0
        /\ report[1].vendors = <<>>

\* C2: the keys reported added by diff(A, B) are the keys reported removed by
\* diff(B, A), and the keys removed by diff(A, B) are those added by diff(B, A).
C2_DiffSymmetric ==
    (report # <<>> /\ reverseReport # <<>>) =>
        /\ KeysOfType(report[1], "added") = KeysOfType(reverseReport[1], "removed")
        /\ KeysOfType(report[1], "removed") = KeysOfType(reverseReport[1], "added")

C2_Witness ==
    /\ report # <<>> /\ reverseReport # <<>>
    /\ KeysOfType(report[1], "added") # {}
    /\ KeysOfType(report[1], "removed") # {}
    /\ report[1].totalUpdated > 0

\* what step 1 has to emit for the new line n: <<item>> or nothing
ExpectedForNew(n) ==
    IF KeyOf(n) \notin KeysIn(oldData)
    THEN <<[type |-> "added", item |-> n, oldDate |-> NoDate, newDate |-> NoDate]>>
    ELSE IF EffDate(MapLine(oldData, KeyOf(n))) # EffDate(n)
         THEN <<[type |-> "updated", item |-> n,
                 oldDate |-> EffDate(MapLine(oldData, KeyOf(n))), newDate |-> EffDate(n)]>>
         ELSE <<>>

\* C3: every line n of newLines yields exactly one 'added' item when its key is
\* absent from the old snapshot, exactly one 'updated' item carrying the old and
\* the new effective date when the old line of that key has another effective
\* date, and nothing when the effective dates agree; no item is 'unchanged'.
\* (A line occurring m times in newLines yields its item m times.)
C3_NewLineClassification ==
    report # <<>> =>
        LET items == ReportItems(report[1])
            fromNew == {i \in DOMAIN items : items[i].type # "removed"}
        IN  /\ \A i \in DOMAIN items : items[i].type \in {"added", "removed", "updated"}
            /\ \A i \in DOMAIN newData :
                  LET n == newData[i]
                      emitted == {j \in fromNew : items[j].item = n}
                  IN  IF ExpectedForNew(n) = <<>>
                      THEN emitted = {}
                      ELSE /\ Cardinality(emitted) = Occurrences(newData, n)
                           /\ \A j \in emitted : items[j] = ExpectedForNew(n)[1]
            /\ \A j \in fromNew : \E i \in DOMAIN newData : items[j].item = newData[i]

\* scenario A: same key, promised 10.05.2025 before, revised 15.05.2025 now
C3_Witness ==
    /\ report # <<>>
    /\ Len(oldData) = 1 /\ Len(newData) = 2
    /\ oldData[1].revizeTarih = NoDate /\ oldData[1].teslimatTarihi = D10May
    /\ newData[1].revizeTarih = D15May /\ KeyOf(newData[1]) = KeyOf(oldData[1])
    /\ report[1].totalUpdated = 1 /\ report[1].totalAdded = 1 /\ report[1].totalRemoved = 0
    /\ \E i \in DOMAIN ReportItems(report[1]) :
          /\ ReportItems(report[1])[i].type = "updated"
          /\ ReportItems(report[1])[i].oldDate = D10May
          /\ ReportItems(report[1])[i].newDate = D15May

RemovedKeys == KeysIn(oldData) \ KeysIn(newData)

\* the items of type 'removed' in the bucket of supplier code kod
RemovedInBucket(r, kod) ==
    LET vs == {i \in DOMAIN r.vendors : r.vendors[i].vendorId = kod}
    IN  IF vs = {} THEN <<>>
        ELSE LET its == r.vendors[CHOOSE i \in vs : TRUE].items
             IN  SelectSeqBy(its, [j \in DOMAIN its |-> its[j].type = "removed"], 1)

\* C4 as stated: every identity key present in oldLines and absent from
\* newLines is reported removed in the bucket of the old line's supplier code
\* and contributes exactly 1 to totalRemoved; no key present in newLines is
\* reported removed.
C4_RemovedOncePerKey ==
    report # <<>> =>
        /\ \A k \in RemovedKeys :
              LET items == ReportItems(report[1])
              IN  Cardinality({i \in DOMAIN items :
                                  items[i].type = "removed" /\ KeyOf(items[i].item) = k}) = 1
        /\ report[1].totalRemoved = Cardinality(RemovedKeys)
        /\ KeysOfType(report[1], "removed") \cap KeysIn(newData) = {}

\* C4 amended: every LINE of oldLines whose key is absent from newLines is
\* reported removed in the bucket of that line's supplier code and contributes
\* exactly 1 to totalRemoved (a key carried by k old lines contributes k); no
\* line whose key is present in newLines is reported removed.
C4_RemovedOncePerLine ==
    report # <<>> =>
        LET gone == {i \in DOMAIN oldData : KeyOf(oldData[i]) \notin KeysIn(newData)}
        IN  /\ \A i \in gone :
                  Occurrences(RemovedInBucket(report[1], oldData[i].saticiKodu),
                              [type |-> "removed", item |-> oldData[i],
                               oldDate |-> NoDate, newDate |-> NoDate])
                    = Occurrences(oldData, oldData[i])
            /\ report[1].totalRemoved = Cardinality(gone)
            /\ Cardinality({j \in DOMAIN ReportItems(report[1]) :
                               ReportItems(report[1])[j].type = "removed"}) = Cardinality(gone)
            /\ KeysOfType(report[1], "removed") \cap KeysIn(newData) = {}

\* two removed lines under one key and under two suppliers, one line kept
C4_Witness ==
    /\ report # <<>>
    /\ Len(oldData) = 2 /\ KeyOf(oldData[1]) = KeyOf(oldData[2])
    /\ oldData[1].saticiKodu # oldData[2].saticiKodu
    /\ KeyOf(oldData[1]) \notin KeysIn(newData)
    /\ newData # <<>>
    /\ report[1].totalRemoved = 2

\* no two lines of the snapshot carry the same identity key
DistinctKeys(lines) ==
    \A i, j \in DOMAIN lines :
        (/\ lines[i].saBelgesi = lines[j].saBelgesi
         /\ (IF lines[i].sasKalemNo # "" THEN lines[i].sasKalemNo ELSE lines[i].malzeme)
              = (IF lines[j].sasKalemNo # "" THEN lines[j].sasKalemNo ELSE lines[j].malzeme))
        => i = j

\* C28: when the keys are distinct within each of the two snapshots, every
\* key is carried by at most one diff item of the report, and
\* totalAdded - totalRemoved = |newLines| - |oldLines|.
C28_DiffConservation ==
    (report # <<>> /\ DistinctKeys(oldData) /\ DistinctKeys(newData)) =>
        /\ \A i, j \in DOMAIN ReportItems(report[1]) :
              KeyOf(ReportItems(report[1])[i].item) = KeyOf(ReportItems(report[1])[j].item)
                 => i = j
        /\ report[1].totalAdded - report[1].totalRemoved = Len(newData) - Len(oldData)

\* two old lines were removed and one new line was added
C28_Witness ==
    /\ report # <<>>
    /\ DistinctKeys(oldData) /\ DistinctKeys(newData)
    /\ Len(oldData) = 2 /\ Len(newData) = 1
    /\ report[1].totalAdded = 1 /\ report[1].totalRemoved = 2

\* added + updated count of a vendor of the report
ChangeCount(v) == v.addedCount + v.updatedCount

\* C11: in the vendors list of the report the added + updated count never
\* increases from one vendor to the next, so a vendor with removals only comes
\* after every vendor that has an added or updated line.
C11_SupplierOrder ==
    report # <<>> =>
        LET vs == report[1].vendors
        IN  /\ \A i \in 1..(Len(vs) - 1) : ChangeCount(vs[i]) >= ChangeCount(vs[i + 1])
            /\ \A i, j \in DOMAIN vs :
                  (ChangeCount(vs[i]) = 0 /\ ChangeCount(vs[j]) > 0) => j < i

\* the bucket of supplier 100234 (removals only) precedes the bucket of
\* 200567 (one added line) in the property order of vendorDiffs and follows
\* it in the report
C11_Witness ==
    /\ report # <<>>
    /\ Len(report[1].vendors) = 2
    /\ report[1].vendors[1].vendorId = VendorY
    /\ report[1].vendors[1].addedCount = 1
    /\ report[1].vendors[2].vendorId = VendorX
    /\ ChangeCount(report[1].vendors[2]) = 0
    /\ report[1].vendors[2].removedCount > 0

\* the supplier codes a diff item is attributed to, computed from the two
\* snapshots: codes of new lines that are added or updated, codes of old
\* lines that are removed
ChangedSuppliers(old, new) ==
    {new[i].saticiKodu : i \in {j \in DOMAIN new :
        \/ KeyOf(new[j]) \notin KeysIn(old)
        \/ EffDate(MapLine(old, KeyOf(new[j]))) # EffDate(new[j])}}
    \cup
    {old[i].saticiKodu : i \in {j \in DOMAIN old : KeyOf(old[j]) \notin KeysIn(new)}}

\* C12: a supplier code is in the vendors list of the report exactly when an
\* added, removed or updated diff item is attributed to it, it is listed once,
\* and every listed vendor carries at least one diff item.
C12_OnlyChangedSuppliers ==
    report # <<>> =>
        LET vs == report[1].vendors
        IN  /\ {vs[i].vendorId : i \in DOMAIN vs} = ChangedSuppliers(oldData, newData)
            /\ \A i, j \in DOMAIN vs : vs[i].vendorId = vs[j].vendorId => i = j
            /\ \A i \in DOMAIN vs : vs[i].items # <<>>

\* newData holds a line of a supplier whose lines are all unchanged next to
\* a changed supplier: the first has a bucket during processing and is not
\* in the report
C12_Witness ==
    /\ report # <<>>
    /\ report[1].vendors # <<>>
    /\ \E i \in DOMAIN newData :
          /\ newData[i].saticiKodu \notin ChangedSuppliers(oldData, newData)
          /\ \A j \in DOMAIN report[1].vendors :
                report[1].vendors[j].vendorId # newData[i].saticiKodu

\* number of diff items of one type in the items lists of the report
ItemsOfType(r, type) ==
    Cardinality({i \in DOMAIN ReportItems(r) : ReportItems(r)[i].type = type})

RECURSIVE CountSum(_, _)
CountSum(vs, f) == IF vs = <<>> THEN 0 ELSE vs[1][f] + CountSum(Tail(vs), f)

\* C13: the three totals of the report are the sums of the vendors' counts
\* and the numbers of diff items of the three types in the vendors' items.
C13_ReportTotals ==
    report # <<>> =>
        LET r == report[1]
        IN  /\ r.totalAdded = CountSum(r.vendors, "addedCount")
            /\ r.totalRemoved = CountSum(r.vendors, "removedCount")
            /\ r.totalUpdated = CountSum(r.vendors, "updatedCount")
            /\ r.totalAdded = ItemsOfType(r, "added")
            /\ r.totalRemoved = ItemsOfType(r, "removed")
            /\ r.totalUpdated = ItemsOfType(r, "updated")
            /\ \A i \in DOMAIN ReportItems(r) :
                  ReportItems(r)[i].type \in {"added", "removed", "updated"}

\* all three kinds of change in one report
C13_Witness ==
    /\ report # <<>>
    /\ report[1].totalAdded = 1 /\ report[1].totalRemoved = 1 /\ report[1].totalUpdated = 1
    /\ Len(report[1].vendors) = 2

(***************************************************************************)
(* Properties of the classifier (SpecClassify)                             *)
(***************************************************************************)
\* C7: for every integer days-remaining d and threshold t >= 0 the classifier
\* assigns exactly one of critical / warning / ok: critical iff d < 0,
\* warning iff 0 <= d <= t, ok iff d > t.
C7_ClassificationTotal ==
    clsResult # <<>> =>
        LET d  == clsItems[1].kalanGun
            t  == clsThreshold
            st == clsResult[1].status
        IN  /\ st \in {"critical", "warning", "ok"}
            /\ (st = "critical") <=> (d < 0)
            /\ (st = "warning") <=> (0 <= d /\ d <= t)
            /\ (st = "ok") <=> (d > t)

\* the boundary d = t, reached from a line stored as ok
C7_Witness ==
    /\ clsResult # <<>>
    /\ clsThreshold = 7 /\ clsItems[1].kalanGun = 7 /\ clsItems[1].status = "ok"
    /\ clsResult[1].status = "warning"

(***************************************************************************)
(* Properties of the application (Spec)                                    *)
(***************************************************************************)
\* the days remaining until a display date, as the parser computes them
DaysUntil(date) == parseDateToDaysRemaining(date)[1]

\* C5: a line that carries a revised date stores the days remaining until
\* that date in kalanGun, and its status is the bucket of that value under the
\* current threshold.
C5_KalanGunNeverStale ==
    \A i \in DOMAIN data :
        data[i].revizeTarih # NoDate =>
            /\ data[i].kalanGun = DaysUntil(data[i].revizeTarih)
            /\ data[i].status = StatusOf(DaysUntil(data[i].revizeTarih), warningThreshold)

\* C6: in every reachable state every line of data carries the bucket of its
\* kalanGun under the current warningThreshold.
C6_StatusMatchesThreshold ==
    \A i \in DOMAIN data :
        data[i].status = StatusOf(data[i].kalanGun, warningThreshold)

\* the lines after a settings save: the same lines in the same order, only
\* the status recomputed under the threshold that was saved
OnlyStatusRecomputed(before, after, threshold) ==
    /\ Len(after) = Len(before)
    /\ \A i \in DOMAIN before :
          after[i] = [before[i] EXCEPT !.status = StatusOf(before[i].kalanGun, threshold)]

\* C8: a step of handleSettingsSave keeps the number and order of the lines of
\* data and of the selected vendor, changes no field of a line but status,
\* and sets every status to the bucket of kalanGun under the saved threshold.
C8_SettingsSaveOnlyStatus ==
    [][SettingsSave =>
          /\ OnlyStatusRecomputed(data, data', warningThreshold')
          /\ (selectedVendor = <<>>) = (selectedVendor' = <<>>)
          /\ selectedVendor # <<>> =>
                OnlyStatusRecomputed(selectedVendor[1].items, selectedVendor'[1].items,
                                     warningThreshold')]_vars

\* the orders came from the store under threshold 7 and nothing was uploaded
\* or edited; a later save of threshold 15 moved the line with 10 days left
\* from ok to warning
C8_Witness ==
    /\ userSteps = 0 /\ ~isDbLoading
    /\ warningThreshold = 15
    /\ \E i \in DOMAIN data : data[i].kalanGun = 10 /\ data[i].status = "warning"
    /\ \E i \in DOMAIN data : data[i].kalanGun < 0 /\ data[i].status = "critical"

\* the lines of a collection a proposal addresses
Addressed(lines, u) ==
    {i \in DOMAIN lines : ItemMatches(lines[i], u.saBelgesi, u.sasKalemNo)}

\* every proposal addresses exactly one line and no two address the same line
DistinctLines(lines, updates) ==
    /\ \A j \in DOMAIN updates : Cardinality(Addressed(lines, updates[j])) = 1
    /\ \A j, k \in DOMAIN updates :
          j # k => Addressed(lines, updates[j]) \cap Addressed(lines, updates[k]) = {}

\* every line a proposal addresses carries the proposed date
AllApplied(before, after, updates) ==
    /\ Len(after) = Len(before)
    /\ \A j \in DOMAIN updates :
          \A i \in Addressed(before, updates[j]) :
              after[i].revizeTarih = updates[j].newDate

\* C9: when the confirmed proposals address distinct lines, after the confirm
\* step every addressed line carries its proposed date in data and in
\* selectedVendor.items.
C9_AllConfirmedApplied ==
    [][LET toUpdate == ConfirmedUpdates(pendingUpdates, selectedKeys)
       IN  (ConfirmReview /\ DistinctLines(data, toUpdate)
                          /\ DistinctLines(selectedVendor[1].items, toUpdate)) =>
              /\ AllApplied(data, data', toUpdate)
              /\ AllApplied(selectedVendor[1].items, selectedVendor'[1].items, toUpdate)]_vars

\* the change of one line is the application of a ticked proposal by the
\* confirm button
ConfirmedChange(before, after) ==
    /\ showReviewModal /\ ~showReviewModal' /\ pendingUpdates' = <<>>
    /\ \E j \in DOMAIN pendingUpdates :
          /\ getUpdateKey(pendingUpdates[j]) \in selectedKeys
          /\ ItemMatches(before, pendingUpdates[j].saBelgesi, pendingUpdates[j].sasKalemNo)
          /\ after = [before EXCEPT !.revizeTarih = pendingUpdates[j].newDate]

OnlyConfirmedChanges(before, after) ==
    /\ Len(after) = Len(before)
    /\ \A i \in DOMAIN before : after[i] # before[i] => ConfirmedChange(before[i], after[i])

\* C10: in the step in which the answer of processOrderUpdates arrives and in
\* every step taken while the review modal is open, a line of data or of the
\* selected vendor changes only by the confirm button, and only to the date of
\* a proposal that is ticked and addresses it; cancelling and ticking change
\* no line.
C10_UpdatesNeedConfirmation ==
    [][((orderChatLoading /\ ~orderChatLoading') \/ showReviewModal) =>
          /\ OnlyConfirmedChanges(data, data')
          /\ (selectedVendor # <<>> /\ selectedVendor' # <<>>) =>
                OnlyConfirmedChanges(selectedVendor[1].items, selectedVendor'[1].items)]_vars

\* the only user step was a chat message: its proposal for item 10 was
\* confirmed and applied, item 20 of the same order kept its dates
C10_Witness ==
    /\ userSteps = 1 /\ ~showReviewModal /\ pendingUpdates = <<>>
    /\ selectedVendor # <<>>
    /\ \E i, j \in DOMAIN data :
          /\ data[i].saBelgesi = "450001" /\ data[i].sasKalemNo = "10"
          /\ data[i].revizeTarih = D15May
          /\ data[j].saBelgesi = "450001" /\ data[j].sasKalemNo = "20"
          /\ data[j].revizeTarih = NoDate
    /\ \E i, j \in DOMAIN selectedVendor[1].items :
          /\ selectedVendor[1].items[i].sasKalemNo = "10"
          /\ selectedVendor[1].items[i].revizeTarih = D15May
          /\ selectedVendor[1].items[j].sasKalemNo = "20"
          /\ selectedVendor[1].items[j].revizeTarih = NoDate

(***************************************************************************)
(* Properties of the date helpers (SpecDates)                              *)
(***************************************************************************)
\* calendar days from today's local date to the date of the argument
CalendarDays(h, arg) == DaysFromCivil(arg.date) - LocalDay(h.zone, h.now)

\* C18: for a DD.MM.YYYY date N calendar days after today the parser's
\* parseDateToDaysRemaining and the view's calculateDaysRemaining both yield N,
\* also when the two local midnights are N*24 hours plus or minus one hour
\* apart.
C18_DaysRemainingRounded ==
    (dateResult # <<>> /\ dateArg[1].kind = "text") =>
        /\ dateResult[1].parser = CalendarDays(host[1], dateArg[1])
        /\ dateResult[1].view = CalendarDays(host[1], dateArg[1])

\* C19: formatDisplayDate renders the date serial s as the calendar date that
\* lies s - 25569 days after 01.01.1970, in every host time zone.
C19_SerialRoundTrip ==
    (dateResult # <<>> /\ dateArg[1].kind = "serial") =>
        dateResult[1].display = CivilFromDays(dateArg[1].serial - ExcelEpoch)

(***************************************************************************)
(* Properties of the row mapper (SpecParse)                                *)
(***************************************************************************)
\* the cell the row holds under column f; missing when the column is not
\* found in the header row
Raw(f) == IF f \in sheet[1].cols THEN sheet[1].row[f] ELSE Undef

\* the cell holds a date: a DD.MM.YYYY text or a date serial
HoldsDate(c) == c.t = "dmy" \/ (c.t = "num" /\ c.n # 0)

\* the integer the cell holds, <<>> when it holds none
IntegerOf(c) ==
    IF c.t = "num" THEN <<c.n>>
    ELSE IF c.t = "str" /\ c.s = "5" THEN <<5>>
    ELSE <<>>

\* C14: a row whose delivery date is missing or cannot be parsed and whose
\* days-remaining cell holds no number is mapped with kalanGun 0 and is put
\* in the bucket 'ok' by the rule built into the parser and by
\* recalculateStatus under every threshold t >= 0.
C14_UnparseableDateDefault ==
    (/\ mapped # <<>>
     /\ ~HoldsDate(Raw("teslimatTarihi"))
     /\ IntegerOf(Raw("kalanGun")) = <<>>) =>
        /\ mapped[1].item.kalanGun = 0
        /\ mapped[1].item.status = "ok"
        /\ \A t \in 0..MaxThreshold :
              recalculateStatus(<<mapped[1].item>>, t)[1].status = "ok"

\* C15: if the delivery-date cell holds a date, kalanGun is the value the
\* parser computes from that date, whatever the days-remaining cell holds;
\* else, if the days-remaining cell holds an integer, kalanGun is that
\* integer; else kalanGun is 0.
C15_DateTakesPrecedence ==
    mapped # <<>> =>
        mapped[1].item.kalanGun =
            IF HoldsDate(Raw("teslimatTarihi"))
            THEN parseCellToDaysRemaining(sheet[1].parser, Raw("teslimatTarihi"))[1]
            ELSE IF IntegerOf(Raw("kalanGun")) # <<>> THEN IntegerOf(Raw("kalanGun"))[1]
            ELSE 0

\* the cell is blank: missing, null, empty or whitespace only
Blank(c) == c.t \in {"undef", "null"} \/ (c.t = "str" /\ c.s \in {"", "  "})

\* C16: a row whose order-number cell is blank or the text "undefined" is not
\* in the mapped list, and a row whose resolved supplier name is the sentinel
\* 'Bilinmeyen Tedarikçi' is not in the mapped list.
C16_RowFiltering ==
    mapped # <<>> =>
        /\ (Blank(Raw("saBelgesi")) \/ Raw("saBelgesi") = Str("undefined")) => ~mapped[1].kept
        /\ mapped[1].item.saticiAdi = "Bilinmeyen Tedarikçi" => ~mapped[1].kept

\* the text of a cell; a cell is empty when it is missing, null, the empty
\* text or the number 0
TextOf(c) ==
    IF c.t = "str" THEN c.s
    ELSE IF c.t = "num" /\ c.n = 100234 THEN "100234"
    ELSE ""

\* C17: the resolved supplier name is the name cell if it is not empty; else
\* the supplier code if the code is longer than 5 characters and is not a
\* number; else 'Tedarikçi (<code>)' if the code is not empty; else the
\* sentinel 'Bilinmeyen Tedarikçi'; the sentinel is the result exactly when
\* the name and the code are both empty.
C17_SupplierNameChain ==
    mapped # <<>> =>
        LET name == TextOf(Raw("saticiAdi"))
            code == TextOf(Raw("saticiKodu"))
            resolved == mapped[1].item.saticiAdi
        IN  /\ name # "" => resolved = name
            /\ (name = "" /\ Len(code) > 5 /\ code # "100234") => resolved = code
            /\ (name = "" /\ code # "" /\ (Len(code) <= 5 \/ code = "100234")) =>
                   resolved = "Tedarikçi (" \o code \o ")"
            /\ (name = "" /\ code = "") => resolved = "Bilinmeyen Tedarikçi"
            /\ resolved = "Bilinmeyen Tedarikçi" <=> (name = "" /\ code = "")

\* a row without a name whose code is a number of six digits has been mapped
\* to the label made of the code
C17_Witness ==
    /\ mapped # <<>>
    /\ TextOf(Raw("saticiAdi")) = ""
    /\ TextOf(Raw("saticiKodu")) = "100234"
    /\ mapped[1].item.saticiAdi = "Tedarikçi (100234)"

\* C20: for every column that is not found in the header row the mapped line
\* carries the empty string if the field is textual and 0 if it is numeric.
C20_MissingColumnDefaults ==
    mapped # <<>> =>
        \A f \in Columns \ sheet[1].cols :
            /\ f \in TextFields => mapped[1].item[f] = ""
            /\ f \in DateFields =>
                  mapped[1].item[f] = [defined |-> TRUE, date |-> NoDate, text |-> ""]
            /\ f \in NumberFields => mapped[1].item[f] = 0

(***************************************************************************)
(* Properties of the vendor aggregation (SpecSummaries)                    *)
(***************************************************************************)
\* the lines of a collection that carry the supplier name, in their order
LinesNamed(lines, name) ==
    LET Named(l) == l.saticiAdi = name
    IN  SelectSeq(lines, Named)

\* C21: the vendor summaries partition the lines by supplier name: the names
\* of the summaries are pairwise different, every line's name is the name of
\* a summary, the members of a summary are exactly the lines with its name,
\* and itemCount, criticalCount and warningCount count the members, the
\* critical members and the warning members.
C21_SummariesPartitionByName ==
    summaries # <<>> =>
        LET vs == summaries[1]
        IN  /\ \A i, j \in DOMAIN vs : vs[i].vendorName = vs[j].vendorName => i = j
            /\ \A k \in DOMAIN orders : \E i \in DOMAIN vs : vs[i].vendorName = orders[k].saticiAdi
            /\ \A i \in DOMAIN vs :
                  /\ vs[i].items = LinesNamed(orders, vs[i].vendorName)
                  /\ vs[i].items # <<>>
                  /\ vs[i].itemCount = Len(vs[i].items)
                  /\ vs[i].criticalCount =
                        Cardinality({k \in DOMAIN vs[i].items : vs[i].items[k].status = "critical"})
                  /\ vs[i].warningCount =
                        Cardinality({k \in DOMAIN vs[i].items : vs[i].items[k].status = "warning"})

\* three lines of two suppliers, one supplier code under two names, have
\* been aggregated
C21_Witness ==
    /\ summaries # <<>>
    /\ Len(orders) = 3
    /\ Len(summaries[1]) = 2
    /\ \E i, j \in DOMAIN orders :
          /\ orders[i].saticiKodu = orders[j].saticiKodu
          /\ orders[i].saticiAdi # orders[j].saticiAdi
    /\ \E i \in DOMAIN summaries[1] :
          summaries[1][i].itemCount = 2 /\ summaries[1][i].criticalCount = 1

\* C24: no two vendor summaries of one aggregation carry the same supplier
\* code (vendorId).
C24_VendorIdUnique ==
    summaries # <<>> =>
        \A i, j \in DOMAIN summaries[1] :
            summaries[1][i].vendorId = summaries[1][j].vendorId => i = j

(***************************************************************************)
(* Properties of the email hand-off (SpecDraft)                            *)
(***************************************************************************)
\* order number, item number and days remaining of the lines of a list
DraftTriples(lines) ==
    [i \in DOMAIN lines |-> <<lines[i].saBelgesi, lines[i].sasKalemNo, lines[i].kalanGun>>]

\* C22: the list generateEmailDraft hands to the drafting service holds the
\* lines of the items argument, each as often as the argument holds it, in
\* ascending order of kalanGun, and the call leaves the argument as it was.
C22_HandOffSorted ==
    [][handedOff' # handedOff =>
        LET out == [i \in DOMAIN handedOff'[1] |->
                      <<handedOff'[1][i].PO, handedOff'[1][i].ItemNo,
                        handedOff'[1][i].DaysRemaining>>]
            in  == DraftTriples(draftItems)
        IN  /\ Len(out) = Len(in)
            /\ \A i \in DOMAIN in : Occurrences(out, in[i]) = Occurrences(in, in[i])
            /\ \A i, j \in DOMAIN out : i < j => out[i][3] <= out[j][3]
            /\ draftItems' = draftItems]_vars

\* three lines that were not in ascending order have been handed off
C22_Witness ==
    /\ handedOff # <<>>
    /\ Len(draftItems) = 3
    /\ draftItems[1].kalanGun > draftItems[2].kalanGun
    /\ draftItems[2].kalanGun > draftItems[3].kalanGun
    /\ handedOff[1][1].DaysRemaining < handedOff[1][3].DaysRemaining

(***************************************************************************)
(* Properties of the supplier upsert (SpecUpsert)                          *)
(***************************************************************************)
\* C30: the collection holds at most one document per seller code before the
\* call; after upsertSuppliersFromExcel has returned it still holds at most
\* one document per seller code, whatever the rows are.
C30_SellerCodeUnique ==
    upsertResult # <<>> =>
        \A d1, d2 \in supplierDocs : d1.sellerCode = d2.sellerCode => d1.id = d2.id

(***************************************************************************)
(* Properties of the header detection (SpecHeader)                         *)
(***************************************************************************)
\* the indices (from 0) of the rows among the first 20 in which at least two
\* anchor names occur as part of the flattened, normalised row
QualifyingRows(grid) ==
    {i \in 0..(Len(grid) - 1) :
        /\ i < 20
        /\ Cardinality({k \in keyColumns : includes(normalizeRow(grid[i + 1]), k)}) >= 2}

\* C27: the chosen header index is the smallest index below min(rowCount, 20)
\* of a row in which at least 2 of the 5 anchor names occur, and 0 if there
\* is no such row; an index of 20 or more is never chosen.
C27_HeaderRowSelection ==
    headerRowIndex # <<>> =>
        /\ headerRowIndex[1] < 20
        /\ IF QualifyingRows(jsonData) = {}
           THEN headerRowIndex[1] = 0
           ELSE /\ headerRowIndex[1] \in QualifyingRows(jsonData)
                /\ \A i \in QualifyingRows(jsonData) : headerRowIndex[1] <= i

\* the only row with two anchors is the 21st row of the grid and the index
\* fell back to 0
C27_Witness ==
    /\ headerRowIndex = <<0>>
    /\ Len(jsonData) > 20
    /\ QualifyingRows(jsonData) = {}
    /\ matchCount(jsonData[21]) >= 2

(***************************************************************************)
(* Properties of the vendor detail view                                    *)
(***************************************************************************)
\* the colour class that shows a status
ColourOf(status) == IF status = "critical" THEN "delayed" ELSE status

\* C26: while the vendor detail view is shown, the colour class of every row
\* of the order table is the bucket of the row's effective days remaining
\* under the current warningThreshold.
C26_RowColourFollowsThreshold ==
    ViewMounted(appState, selectedVendor, apiKeyMissing) =>
        \A i \in DOMAIN selectedVendor[1].items :
            LET item == selectedVendor[1].items[i]
            IN  rowColour(item) =
                    ColourOf(StatusOf(effectiveRemainingDays(item), warningThreshold))

\* C25: a date edit issued from the row of a line x changes only lines that
\* carry the identity key of x, in data and in the open vendor's items, and
\* changes nothing but their revised date.
OnlyRevisedDate(before, after, key) ==
    /\ DOMAIN after = DOMAIN before
    /\ \A j \in DOMAIN before :
          after[j] # before[j] =>
              /\ getItemKey(before[j]) = key
              /\ after[j] = [before[j] EXCEPT !.revizeTarih = after[j].revizeTarih]

C25_EditTouchesOnlyAddressedLine ==
    [][UpdateItem =>
          \E i \in DOMAIN selectedVendor[1].items :
              LET x == selectedVendor[1].items[i]
              IN  /\ OnlyRevisedDate(data, data', getItemKey(x))
                  /\ OnlyRevisedDate(selectedVendor[1].items, selectedVendor'[1].items,
                                     getItemKey(x))]_vars

\* C29: a date edit or a note edit made while the vendor detail view is open
\* leaves the email draft, the email chat history, the column filters and the
\* asked marks of the view as they were.
C29_EditKeepsViewWork ==
    [][(UpdateItem \/ UpdateNote) =>
          UNCHANGED <<emailContent, emailChatHistory, filters, askedItems>>]_vars

\* C23: handleDataLoaded leaves the application on the dashboard with the
\* loaded lines classified under the current warningThreshold, and a failure
\* of its remote store calls sets isOffline and takes none of that back.
C23_PersistenceFailureKeepsPipeline ==
    [][/\ FinishParse =>
            /\ appState' = "DASHBOARD"
            /\ \E loadedData \in AppFiles :
                  data' = recalculateStatus(loadedData, warningThreshold)
       /\ SyncFail =>
            /\ isOffline'
            /\ UNCHANGED <<appState, data>>]_vars

=========================================================================
